---- MODULE Spec2Model ----
(***************************************************************************)
(* A model of the two Tetris engines of the repository:                    *)
(*   - the src/src engine (game.c, tetromino.c) with its main loop, and    *)
(*   - the legacy engine (src/game.c, src/tetromino.c) with its input      *)
(*     layer (src/input.c) and game loop (src/main.c).                     *)
(* A game structure is a record; every C function is an operator from the  *)
(* structure before the call to the structure after it and the value       *)
(* returned.  rand() is an argument of the operators that draw from it.    *)
(***************************************************************************)
EXTENDS Integers, Sequences, FiniteSets, TLC

VARIABLES
    engine,   \* "new" (src/src) or "legacy" (src/): which program runs
    driver,   \* who calls the engine: "api", "main", "loop", or a unit harness
    game,     \* the GameState (src/src) or Game (legacy) structure
    op,       \* the last call made: its name, arguments and returned value
    pc,       \* position of the driver inside its loop
    steps     \* number of calls made so far

vars == <<engine, driver, game, op, pc, steps>>

----------------------------------------------------------------------------
(* Program constants *)

BOARD_WIDTH == 10
BOARD_HEIGHT == 20
TETRO_COUNT == 7
ROTATION_COUNT == 4
TETRO_MATRIX_SIZE == 4
TETRO_START_X == 3
TETRO_START_Y == 0

TETRO_I == 0
TETRO_O == 1
TETRO_T == 2
TETRO_S == 3
TETRO_Z == 4
TETRO_J == 5
TETRO_L == 6

COLOR_I == 1
COLOR_O == 2
COLOR_T == 3
COLOR_S == 4
COLOR_Z == 5
COLOR_J == 6
COLOR_L == 7

NULL == "NULL"

Rows == 0 .. (BOARD_HEIGHT - 1)
Cols == 0 .. (BOARD_WIDTH - 1)

\* the range of the C type int
INT_MAX == 2147483647
INT_MIN == -INT_MAX - 1

----------------------------------------------------------------------------
(* Bounds of the model *)

\* rand() % TETRO_COUNT is drawn from 0 .. MaxRand
MaxRand == 1
\* calls a test driver makes in one run
MaxCalls == 2
\* iterations a main loop makes in one run
MaxIters == 1

RandTypes == 0 .. MaxRand

----------------------------------------------------------------------------
(* src/src/tetromino.c: the piece catalog *)

\* an I piece that lies flat in all four rotations
shape_I_flat ==
    << << <<0,0,0,0>>, <<1,1,1,1>>, <<0,0,0,0>>, <<0,0,0,0>> >>,
       << <<0,0,0,0>>, <<1,1,1,1>>, <<0,0,0,0>>, <<0,0,0,0>> >>,
       << <<0,0,0,0>>, <<1,1,1,1>>, <<0,0,0,0>>, <<0,0,0,0>> >>,
       << <<0,0,0,0>>, <<1,1,1,1>>, <<0,0,0,0>>, <<0,0,0,0>> >> >>

shape_I ==
    << << <<0,0,0,0>>, <<1,1,1,1>>, <<0,0,0,0>>, <<0,0,0,0>> >>,
       << <<0,0,1,0>>, <<0,0,1,0>>, <<0,0,1,0>>, <<0,0,1,0>> >>,
       << <<0,0,0,0>>, <<1,1,1,1>>, <<0,0,0,0>>, <<0,0,0,0>> >>,
       << <<0,0,1,0>>, <<0,0,1,0>>, <<0,0,1,0>>, <<0,0,1,0>> >> >>

shape_O ==
    << << <<0,1,1,0>>, <<0,1,1,0>>, <<0,0,0,0>>, <<0,0,0,0>> >>,
       << <<0,1,1,0>>, <<0,1,1,0>>, <<0,0,0,0>>, <<0,0,0,0>> >>,
       << <<0,1,1,0>>, <<0,1,1,0>>, <<0,0,0,0>>, <<0,0,0,0>> >>,
       << <<0,1,1,0>>, <<0,1,1,0>>, <<0,0,0,0>>, <<0,0,0,0>> >> >>

shape_T ==
    << << <<0,1,0,0>>, <<1,1,1,0>>, <<0,0,0,0>>, <<0,0,0,0>> >>,
       << <<0,1,0,0>>, <<0,1,1,0>>, <<0,1,0,0>>, <<0,0,0,0>> >>,
       << <<0,0,0,0>>, <<1,1,1,0>>, <<0,1,0,0>>, <<0,0,0,0>> >>,
       << <<0,1,0,0>>, <<1,1,0,0>>, <<0,1,0,0>>, <<0,0,0,0>> >> >>

shape_S ==
    << << <<0,1,1,0>>, <<1,1,0,0>>, <<0,0,0,0>>, <<0,0,0,0>> >>,
       << <<0,1,0,0>>, <<0,1,1,0>>, <<0,0,1,0>>, <<0,0,0,0>> >>,
       << <<0,1,1,0>>, <<1,1,0,0>>, <<0,0,0,0>>, <<0,0,0,0>> >>,
       << <<0,1,0,0>>, <<0,1,1,0>>, <<0,0,1,0>>, <<0,0,0,0>> >> >>

shape_Z ==
    << << <<1,1,0,0>>, <<0,1,1,0>>, <<0,0,0,0>>, <<0,0,0,0>> >>,
       << <<0,0,1,0>>, <<0,1,1,0>>, <<0,1,0,0>>, <<0,0,0,0>> >>,
       << <<1,1,0,0>>, <<0,1,1,0>>, <<0,0,0,0>>, <<0,0,0,0>> >>,
       << <<0,0,1,0>>, <<0,1,1,0>>, <<0,1,0,0>>, <<0,0,0,0>> >> >>

shape_J ==
    << << <<1,0,0,0>>, <<1,1,1,0>>, <<0,0,0,0>>, <<0,0,0,0>> >>,
       << <<0,1,1,0>>, <<0,1,0,0>>, <<0,1,0,0>>, <<0,0,0,0>> >>,
       << <<0,0,0,0>>, <<1,1,1,0>>, <<0,0,1,0>>, <<0,0,0,0>> >>,
       << <<0,1,0,0>>, <<0,1,0,0>>, <<1,1,0,0>>, <<0,0,0,0>> >> >>

shape_L ==
    << << <<0,0,1,0>>, <<1,1,1,0>>, <<0,0,0,0>>, <<0,0,0,0>> >>,
       << <<0,1,0,0>>, <<0,1,0,0>>, <<0,1,1,0>>, <<0,0,0,0>> >>,
       << <<0,0,0,0>>, <<1,1,1,0>>, <<1,0,0,0>>, <<0,0,0,0>> >>,
       << <<1,1,0,0>>, <<0,1,0,0>>, <<0,1,0,0>>, <<0,0,0,0>> >> >>

\* indexed [type + 1][rotation + 1][row + 1][col + 1]
shape_table == <<shape_I, shape_O, shape_T, shape_S, shape_Z, shape_J, shape_L>>

color_table == <<COLOR_I, COLOR_O, COLOR_T, COLOR_S, COLOR_Z, COLOR_J, COLOR_L>>

tetromino_type_is_valid(type) == type >= 0 /\ type < TETRO_COUNT

tetromino_rotation_is_valid(rotation) == rotation >= 0 /\ rotation < ROTATION_COUNT

tetromino_create(type) ==
    [type |-> type, x |-> TETRO_START_X, y |-> TETRO_START_Y, rotation |-> 0]

tetromino_rotate_clockwise(rotation) == (rotation + 1) % ROTATION_COUNT

\* a counter-clockwise turn that subtracts one and keeps the sign
tetromino_rotate_counter_clockwise_signed(rotation) ==
    IF rotation = 0 THEN -1 ELSE rotation - 1

tetromino_rotate_counter_clockwise(rotation) ==
    (rotation + ROTATION_COUNT - 1) % ROTATION_COUNT

tetromino_get_shape(type, rotation) ==
    IF ~tetromino_type_is_valid(type) \/ ~tetromino_rotation_is_valid(rotation)
    THEN NULL
    ELSE shape_table[type + 1][rotation + 1]

\* a colour lookup that answers 0 for a kind outside the catalog
tetromino_get_color_zero(type) ==
    IF ~tetromino_type_is_valid(type) THEN 0 ELSE color_table[type + 1]

tetromino_get_color(type) ==
    IF ~tetromino_type_is_valid(type) THEN -1 ELSE color_table[type + 1]

\* a move that takes the horizontal offset only
tetromino_move_x_only(t, dx, dy) ==
    [t EXCEPT !.x = t.x + dx]

tetromino_move(t, dx, dy) == [t EXCEPT !.x = t.x + dx, !.y = t.y + dy]

----------------------------------------------------------------------------
(* src/src/game.c: the engine *)

\* memset(board->cells, 0, ...)
clear_board == [y \in Rows |-> [x \in Cols |-> 0]]

\* The scan of game_is_valid_position from mask cell i (row-major) on:
\* the first occupied cell that is out of bounds or on a filled cell ends it.
RECURSIVE valid_scan(_, _, _, _)
valid_scan(board, shape, t, i) ==
    IF i = TETRO_MATRIX_SIZE * TETRO_MATRIX_SIZE THEN 1
    ELSE LET row == i \div TETRO_MATRIX_SIZE
             col == i % TETRO_MATRIX_SIZE
             board_x == t.x + col
             board_y == t.y + row
         IN  IF shape[row + 1][col + 1] = 1
             THEN IF board_x < 0 \/ board_x >= BOARD_WIDTH THEN 0
                  ELSE IF board_y < 0 \/ board_y >= BOARD_HEIGHT THEN 0
                  ELSE IF board[board_y][board_x] /= 0 THEN 0
                  ELSE valid_scan(board, shape, t, i + 1)
             ELSE valid_scan(board, shape, t, i + 1)

\* The same scan without the test for rows above the board.
RECURSIVE valid_scan_open_top(_, _, _, _)
valid_scan_open_top(board, shape, t, i) ==
    IF i = TETRO_MATRIX_SIZE * TETRO_MATRIX_SIZE THEN 1
    ELSE LET row == i \div TETRO_MATRIX_SIZE
             col == i % TETRO_MATRIX_SIZE
             board_x == t.x + col
             board_y == t.y + row
         IN  IF shape[row + 1][col + 1] = 1
             THEN IF board_x < 0 \/ board_x >= BOARD_WIDTH THEN 0
                  ELSE IF board_y >= BOARD_HEIGHT THEN 0
                  ELSE IF board_y >= 0 /\ board[board_y][board_x] /= 0 THEN 0
                  ELSE valid_scan_open_top(board, shape, t, i + 1)
             ELSE valid_scan_open_top(board, shape, t, i + 1)

game_is_valid_position_open_top(g, t) ==
    LET shape == tetromino_get_shape(t.type, t.rotation)
    IN  IF shape = NULL THEN 0 ELSE valid_scan_open_top(g.board, shape, t, 0)

game_is_valid_position(g, t) ==
    LET shape == tetromino_get_shape(t.type, t.rotation)
    IN  IF shape = NULL THEN 0 ELSE valid_scan(g.board, shape, t, 0)

\* game_lock_piece's double loop: every occupied mask cell inside the board
\* receives the piece's colour.
lock_cells(board, t, shape, color) ==
    [y \in Rows |-> [x \in Cols |->
        LET row == y - t.y
            col == x - t.x
        IN  IF /\ row >= 0 /\ row < TETRO_MATRIX_SIZE
               /\ col >= 0 /\ col < TETRO_MATRIX_SIZE
               /\ shape[row + 1][col + 1] = 1
            THEN color
            ELSE board[y][x]]]

\* the table without the level factor
game_calculate_score_flat(lines_cleared, level) ==
    CASE lines_cleared = 1 -> 100
      [] lines_cleared = 2 -> 300
      [] lines_cleared = 3 -> 500
      [] lines_cleared = 4 -> 800
      [] OTHER -> 0

game_calculate_score(lines_cleared, level) ==
    CASE lines_cleared = 1 -> 100 * level
      [] lines_cleared = 2 -> 300 * level
      [] lines_cleared = 3 -> 500 * level
      [] lines_cleared = 4 -> 800 * level
      [] OTHER -> 0

\* is_full of game_clear_lines: no cell of the row is 0
row_is_full(cells, r) == \A col \in Cols : cells[r][col] /= 0

\* A compaction that drops the first full row it meets and keeps the others.
RECURSIVE compact_rows_once(_, _, _, _)
compact_rows_once(cells, read_row, write_row, lines_cleared) ==
    IF read_row < 0
    THEN [cells |-> cells, write_row |-> write_row, lines_cleared |-> lines_cleared]
    ELSE IF row_is_full(cells, read_row) /\ lines_cleared = 0
         THEN compact_rows_once(cells, read_row - 1, write_row, lines_cleared + 1)
         ELSE compact_rows_once(
                  IF write_row /= read_row
                  THEN [cells EXCEPT ![write_row] = cells[read_row]]
                  ELSE cells,
                  read_row - 1, write_row - 1, lines_cleared)

\* The read_row loop of game_clear_lines, from read_row down to row 0.
RECURSIVE compact_rows(_, _, _, _)
compact_rows(cells, read_row, write_row, lines_cleared) ==
    IF read_row < 0
    THEN [cells |-> cells, write_row |-> write_row, lines_cleared |-> lines_cleared]
    ELSE IF row_is_full(cells, read_row)
         THEN compact_rows(cells, read_row - 1, write_row, lines_cleared + 1)
         ELSE compact_rows(
                  IF write_row /= read_row
                  THEN [cells EXCEPT ![write_row] = cells[read_row]]
                  ELSE cells,
                  read_row - 1, write_row - 1, lines_cleared)

\* the rows above the compacted ones left as they were
clear_top_rows_kept(cells, write_row) == cells

\* "Clear remaining rows at top": rows write_row down to 0 are zeroed.
clear_top_rows(cells, write_row) ==
    [y \in Rows |-> IF y <= write_row THEN [x \in Cols |-> 0] ELSE cells[y]]

\* a clear that takes the level from the lines counter as it was before
game_clear_lines_level_late(g) ==
    LET c == compact_rows(g.board, BOARD_HEIGHT - 1, BOARD_HEIGHT - 1, 0)
        k == c.lines_cleared
        b == clear_top_rows(c.cells, c.write_row)
    IN  IF k > 0
        THEN [g |-> [g EXCEPT !.board = b,
                              !.lines = g.lines + k,
                              !.score = g.score + game_calculate_score(k, g.level),
                              !.level = (g.lines \div 10) + 1],
              ret |-> k]
        ELSE [g |-> [g EXCEPT !.board = b], ret |-> k]

game_clear_lines(g) ==
    LET c == compact_rows(g.board, BOARD_HEIGHT - 1, BOARD_HEIGHT - 1, 0)
        k == c.lines_cleared
        b == clear_top_rows(c.cells, c.write_row)
        lines == g.lines + k
    IN  IF k > 0
        THEN [g |-> [g EXCEPT !.board = b,
                              !.lines = lines,
                              !.score = g.score + game_calculate_score(k, g.level),
                              !.level = (lines \div 10) + 1],
              ret |-> k]
        ELSE [g |-> [g EXCEPT !.board = b], ret |-> k]

\* a spawn that installs the piece although its placement is blocked
game_spawn_piece_forced(g, type) ==
    LET new_piece == tetromino_create(type)
    IN  IF game_is_valid_position(g, new_piece) = 0
        THEN [g |-> [g EXCEPT !.is_running = 0, !.current = new_piece], ret |-> 0]
        ELSE [g |-> [g EXCEPT !.current = new_piece], ret |-> 1]

game_spawn_piece(g, type) ==
    LET new_piece == tetromino_create(type)
    IN  IF game_is_valid_position(g, new_piece) = 0
        THEN [g |-> [g EXCEPT !.is_running = 0], ret |-> 0]
        ELSE [g |-> [g EXCEPT !.current = new_piece], ret |-> 1]

\* a move that writes the piece onto the board when it is blocked
game_move_current_stamps(g, dx, dy) ==
    LET test == tetromino_move(g.current, dx, dy)
    IN  IF game_is_valid_position(g, test) = 0
        THEN [g |-> [g EXCEPT !.board =
                        lock_cells(g.board, g.current,
                                   tetromino_get_shape(g.current.type, g.current.rotation),
                                   tetromino_get_color(g.current.type))],
              ret |-> 0]
        ELSE [g |-> [g EXCEPT !.current = test], ret |-> 1]

game_move_current(g, dx, dy) ==
    LET test == tetromino_move(g.current, dx, dy)
    IN  IF game_is_valid_position(g, test) = 0
        THEN [g |-> g, ret |-> 0]
        ELSE [g |-> [g EXCEPT !.current = test], ret |-> 1]

\* a rotation that is refused but leaves the turned piece in place
game_rotate_current_keeps_turn(g, clockwise) ==
    LET test == [g.current EXCEPT !.rotation =
                    IF clockwise /= 0
                    THEN tetromino_rotate_clockwise(g.current.rotation)
                    ELSE tetromino_rotate_counter_clockwise(g.current.rotation)]
    IN  IF game_is_valid_position(g, test) = 0
        THEN [g |-> [g EXCEPT !.current = test], ret |-> 0]
        ELSE [g |-> [g EXCEPT !.current = test], ret |-> 1]

game_rotate_current(g, clockwise) ==
    LET test == [g.current EXCEPT !.rotation =
                    IF clockwise /= 0
                    THEN tetromino_rotate_clockwise(g.current.rotation)
                    ELSE tetromino_rotate_counter_clockwise(g.current.rotation)]
    IN  IF game_is_valid_position(g, test) = 0
        THEN [g |-> g, ret |-> 0]
        ELSE [g |-> [g EXCEPT !.current = test], ret |-> 1]

\* a lock that returns the lines counter instead of the rows it cleared
game_lock_piece_returns_total(g, rnd) ==
    LET shape == tetromino_get_shape(g.current.type, g.current.rotation)
    IN  IF shape = NULL THEN [g |-> g, ret |-> 0]
        ELSE LET color == tetromino_get_color(g.current.type)
                 g1 == [g EXCEPT !.board = lock_cells(g.board, g.current, shape, color),
                                 !.current = g.next,
                                 !.next = tetromino_create(rnd)]
             IN  IF game_is_valid_position(g1, g1.current) = 0
                 THEN [g |-> [g1 EXCEPT !.is_running = 0], ret |-> 0]
                 ELSE LET c == game_clear_lines(g1)
                      IN  [g |-> c.g, ret |-> c.g.lines]

\* rnd is the value of random_type() drawn for the new next piece
game_lock_piece(g, rnd) ==
    LET shape == tetromino_get_shape(g.current.type, g.current.rotation)
    IN  IF shape = NULL THEN [g |-> g, ret |-> 0]
        ELSE LET color == tetromino_get_color(g.current.type)
                 g1 == [g EXCEPT !.board = lock_cells(g.board, g.current, shape, color),
                                 !.current = g.next,
                                 !.next = tetromino_create(rnd)]
             IN  IF game_is_valid_position(g1, g1.current) = 0
                 THEN [g |-> [g1 EXCEPT !.is_running = 0], ret |-> 0]
                 ELSE game_clear_lines(g1)

\* a drop that stops after the first step down
drop_loop_one_step(g, drop_distance) ==
    LET m == game_move_current(g, 0, 1)
    IN  IF m.ret /= 0 THEN [g |-> m.g, ret |-> drop_distance + 1]
        ELSE [g |-> m.g, ret |-> drop_distance]

\* "while (game_move_current(game, 0, 1)) drop_distance++"
RECURSIVE drop_loop(_, _)
drop_loop(g, drop_distance) ==
    LET m == game_move_current(g, 0, 1)
    IN  IF m.ret /= 0 THEN drop_loop(m.g, drop_distance + 1)
        ELSE [g |-> m.g, ret |-> drop_distance]

game_hard_drop(g, rnd) ==
    LET d == drop_loop(g, 0)
    IN  [g |-> game_lock_piece(d.g, rnd).g, ret |-> d.ret]

\* a * 100 in the 32-bit int of the build, for a >= 0: the product modulo
\* 2^32 read as a signed number, computed on 16-bit halves
mul_100_int(a) ==
    LET low == (a % 65536) * 100
        high == ((a \div 65536) * 100 + (low \div 65536)) % 65536
    IN  IF high >= 32768 THEN (high - 65536) * 65536 + (low % 65536)
        ELSE high * 65536 + (low % 65536)

\* 1000 - p in the 32-bit int of the build
sub_from_1000_int(p) ==
    IF p >= 1000 - INT_MAX THEN 1000 - p
    ELSE (1000 - (p - INT_MIN)) + INT_MIN

\* what a build makes of the signed overflow of (level - 1) * 100: it lets
\* the product wrap, or it has folded "speed < 100" on the premise that no
\* overflow happens
Overflows == {"wraps", "folded"}

\* overflow is the build's way with signed overflow; it matters only when
\* (level - 1) * 100 exceeds INT_MAX
game_get_speed_ms(level, overflow) ==
    LET lv == IF level < 1 THEN 1 ELSE level
    IN  IF lv - 1 <= INT_MAX \div 100
        THEN LET speed == 1000 - (lv - 1) * 100
             IN  IF speed < 100 THEN 100 ELSE speed
        ELSE IF overflow = "wraps"
        THEN LET speed == sub_from_1000_int(mul_100_int(lv - 1))
             IN  IF speed < 100 THEN 100 ELSE speed
        ELSE 100

game_check_game_over(g) ==
    IF g.is_running = 0 THEN 1
    ELSE IF game_is_valid_position(g, tetromino_create(g.current.type)) = 0 THEN 1
    ELSE 0

game_get_next_type(g) == g.next.type

game_set_next_type(g, type) == [g EXCEPT !.next = tetromino_create(type)]

\* game_init over the structure g (whose current field keeps its old content
\* until the spawn writes it); rnd_next and rnd_cur are the two draws
\* an initialisation that leaves the pause flag as it finds it
game_init_keeps_pause(g, rnd_next, rnd_cur) ==
    game_spawn_piece([g EXCEPT !.board = clear_board,
                               !.score = 0,
                               !.level = 1,
                               !.lines = 0,
                               !.is_running = 1,
                               !.next = tetromino_create(rnd_next)],
                     rnd_cur).g

game_init(g, rnd_next, rnd_cur) ==
    game_spawn_piece([g EXCEPT !.board = clear_board,
                               !.score = 0,
                               !.level = 1,
                               !.lines = 0,
                               !.is_running = 1,
                               !.is_paused = 0,
                               !.next = tetromino_create(rnd_next)],
                     rnd_cur).g

game_reset(g, rnd_next, rnd_cur) == game_init(g, rnd_next, rnd_cur)

----------------------------------------------------------------------------
(* src/tetromino.c, src/game.h: the legacy catalog and constants *)

NUM_TETROMINO_TYPES == 7
NUM_ROTATIONS == 4
TETROMINO_SIZE == 4
COLOR_EMPTY == 8
INITIAL_SPEED == 1000
SPEED_DECREMENT == 50
MIN_SPEED == 100
SCORE_SINGLE == 100
SCORE_DOUBLE == 300
SCORE_TRIPLE == 500
SCORE_TETRIS == 800
LINES_PER_LEVEL == 10

STATE_PLAYING == "STATE_PLAYING"
STATE_PAUSED == "STATE_PAUSED"
STATE_GAME_OVER == "STATE_GAME_OVER"

\* indexed [type + 1][rotation + 1][y + 1][x + 1]
SHAPES ==
    << << << <<0,0,0,0>>, <<1,1,1,1>>, <<0,0,0,0>>, <<0,0,0,0>> >>,
          << <<0,0,1,0>>, <<0,0,1,0>>, <<0,0,1,0>>, <<0,0,1,0>> >>,
          << <<0,0,0,0>>, <<0,0,0,0>>, <<1,1,1,1>>, <<0,0,0,0>> >>,
          << <<0,1,0,0>>, <<0,1,0,0>>, <<0,1,0,0>>, <<0,1,0,0>> >> >>,
       << << <<0,1,1,0>>, <<0,1,1,0>>, <<0,0,0,0>>, <<0,0,0,0>> >>,
          << <<0,1,1,0>>, <<0,1,1,0>>, <<0,0,0,0>>, <<0,0,0,0>> >>,
          << <<0,1,1,0>>, <<0,1,1,0>>, <<0,0,0,0>>, <<0,0,0,0>> >>,
          << <<0,1,1,0>>, <<0,1,1,0>>, <<0,0,0,0>>, <<0,0,0,0>> >> >>,
       << << <<0,1,0,0>>, <<1,1,1,0>>, <<0,0,0,0>>, <<0,0,0,0>> >>,
          << <<0,1,0,0>>, <<0,1,1,0>>, <<0,1,0,0>>, <<0,0,0,0>> >>,
          << <<0,0,0,0>>, <<1,1,1,0>>, <<0,1,0,0>>, <<0,0,0,0>> >>,
          << <<0,1,0,0>>, <<1,1,0,0>>, <<0,1,0,0>>, <<0,0,0,0>> >> >>,
       << << <<0,1,1,0>>, <<1,1,0,0>>, <<0,0,0,0>>, <<0,0,0,0>> >>,
          << <<0,1,0,0>>, <<0,1,1,0>>, <<0,0,1,0>>, <<0,0,0,0>> >>,
          << <<0,0,0,0>>, <<0,1,1,0>>, <<1,1,0,0>>, <<0,0,0,0>> >>,
          << <<1,0,0,0>>, <<1,1,0,0>>, <<0,1,0,0>>, <<0,0,0,0>> >> >>,
       << << <<1,1,0,0>>, <<0,1,1,0>>, <<0,0,0,0>>, <<0,0,0,0>> >>,
          << <<0,0,1,0>>, <<0,1,1,0>>, <<0,1,0,0>>, <<0,0,0,0>> >>,
          << <<0,0,0,0>>, <<1,1,0,0>>, <<0,1,1,0>>, <<0,0,0,0>> >>,
          << <<0,1,0,0>>, <<1,1,0,0>>, <<1,0,0,0>>, <<0,0,0,0>> >> >>,
       << << <<1,0,0,0>>, <<1,1,1,0>>, <<0,0,0,0>>, <<0,0,0,0>> >>,
          << <<0,1,1,0>>, <<0,1,0,0>>, <<0,1,0,0>>, <<0,0,0,0>> >>,
          << <<0,0,0,0>>, <<1,1,1,0>>, <<0,0,1,0>>, <<0,0,0,0>> >>,
          << <<0,1,0,0>>, <<0,1,0,0>>, <<1,1,0,0>>, <<0,0,0,0>> >> >>,
       << << <<0,0,1,0>>, <<1,1,1,0>>, <<0,0,0,0>>, <<0,0,0,0>> >>,
          << <<0,1,0,0>>, <<0,1,0,0>>, <<0,1,1,0>>, <<0,0,0,0>> >>,
          << <<0,0,0,0>>, <<1,1,1,0>>, <<1,0,0,0>>, <<0,0,0,0>> >>,
          << <<1,1,0,0>>, <<0,1,0,0>>, <<0,1,0,0>>, <<0,0,0,0>> >> >> >>

legacy_tetromino_get_shape(type, rotation) ==
    IF type < 0 \/ type >= NUM_TETROMINO_TYPES THEN NULL
    ELSE SHAPES[type + 1][(rotation % NUM_ROTATIONS) + 1]

legacy_tetromino_get_color(type) ==
    CASE type = TETRO_I -> COLOR_I
      [] type = TETRO_O -> COLOR_O
      [] type = TETRO_T -> COLOR_T
      [] type = TETRO_S -> COLOR_S
      [] type = TETRO_Z -> COLOR_Z
      [] type = TETRO_J -> COLOR_J
      [] type = TETRO_L -> COLOR_L
      [] OTHER -> COLOR_EMPTY

legacy_tetromino_create(type, start_x, start_y) ==
    [type |-> type, rotation |-> 0, x |-> start_x, y |-> start_y]

legacy_tetromino_rotate_clockwise(t) ==
    [t EXCEPT !.rotation = (t.rotation + 1) % NUM_ROTATIONS]

legacy_tetromino_rotate_counter_clockwise(t) ==
    [t EXCEPT !.rotation = (t.rotation + NUM_ROTATIONS - 1) % NUM_ROTATIONS]

\* The scan of tetromino_check_collision from mask cell i on; TRUE: collision.
RECURSIVE collision_scan(_, _, _, _)
collision_scan(board, shape, t, i) ==
    IF i = TETROMINO_SIZE * TETROMINO_SIZE THEN FALSE
    ELSE LET row == i \div TETROMINO_SIZE
             col == i % TETROMINO_SIZE
             board_x == t.x + col
             board_y == t.y + row
         IN  IF shape[row + 1][col + 1] /= 0
             THEN IF board_x < 0 \/ board_x >= BOARD_WIDTH \/ board_y >= BOARD_HEIGHT
                  THEN TRUE
                  ELSE IF board_y >= 0 /\ board[board_y][board_x] /= 0 THEN TRUE
                  ELSE collision_scan(board, shape, t, i + 1)
             ELSE collision_scan(board, shape, t, i + 1)

tetromino_check_collision(t, board) ==
    LET shape == legacy_tetromino_get_shape(t.type, t.rotation)
    IN  IF shape = NULL THEN TRUE ELSE collision_scan(board, shape, t, 0)

----------------------------------------------------------------------------
(* src/game.c: the legacy engine *)

\* rnd_first and rnd_second are the two draws of rand() % NUM_TETROMINO_TYPES
legacy_game_reset(g, rnd_first, rnd_second) ==
    [board |-> [y \in Rows |-> [x \in Cols |-> 0]],
     current_piece |-> legacy_tetromino_create(rnd_first, BOARD_WIDTH \div 2 - 2, 0),
     next_piece |-> legacy_tetromino_create(rnd_second, BOARD_WIDTH \div 2 - 2, 0),
     score |-> 0,
     level |-> 1,
     lines_cleared |-> 0,
     speed_ms |-> INITIAL_SPEED,
     state |-> STATE_PLAYING,
     running |-> TRUE]

game_move_piece(g, dx, dy) ==
    LET temp == [g.current_piece EXCEPT !.x = g.current_piece.x + dx,
                                        !.y = g.current_piece.y + dy]
    IN  IF ~tetromino_check_collision(temp, g.board)
        THEN [g |-> [g EXCEPT !.current_piece = temp], ret |-> TRUE]
        ELSE [g |-> g, ret |-> FALSE]

\* the kick table with the kick to the right tried before the kick to the left
kicks_right_first ==
    << <<0, 0>>, <<1, 0>>, <<-1, 0>>, <<0, -1>>, <<2, 0>>, <<-2, 0>>, <<0, -2>> >>

kicks == << <<0, 0>>, <<-1, 0>>, <<1, 0>>, <<0, -1>>, <<-2, 0>>, <<2, 0>>, <<0, -2>> >>

\* the kick loop of game_rotate_piece from kick i (0-based) on
RECURSIVE kick_loop(_, _, _)
kick_loop(g, temp, i) ==
    IF i >= 7 THEN [g |-> g, ret |-> FALSE]
    ELSE LET test == [temp EXCEPT !.x = temp.x + kicks[i + 1][1],
                                  !.y = temp.y + kicks[i + 1][2]]
         IN  IF ~tetromino_check_collision(test, g.board)
             THEN [g |-> [g EXCEPT !.current_piece = test], ret |-> TRUE]
             ELSE kick_loop(g, temp, i + 1)

game_rotate_piece(g, clockwise) ==
    LET temp == IF clockwise
                THEN legacy_tetromino_rotate_clockwise(g.current_piece)
                ELSE legacy_tetromino_rotate_counter_clockwise(g.current_piece)
    IN  kick_loop(g, temp, 0)

RECURSIVE legacy_drop_loop(_, _)
legacy_drop_loop(g, drop_distance) ==
    LET m == game_move_piece(g, 0, 1)
    IN  IF m.ret THEN legacy_drop_loop(m.g, drop_distance + 1)
        ELSE [g |-> m.g, ret |-> drop_distance]

\* a hard drop that pays one point per row instead of two
legacy_game_hard_drop_one_point(g) ==
    LET d == legacy_drop_loop(g, 0)
    IN  [g |-> [d.g EXCEPT !.score = d.g.score + d.ret], ret |-> d.ret]

legacy_game_hard_drop(g) ==
    LET d == legacy_drop_loop(g, 0)
    IN  [g |-> [d.g EXCEPT !.score = d.g.score + d.ret * 2], ret |-> d.ret]

legacy_game_lock_piece(g) ==
    LET shape == legacy_tetromino_get_shape(g.current_piece.type,
                                            g.current_piece.rotation)
    IN  IF shape = NULL THEN g
        ELSE [g EXCEPT !.board =
                 lock_cells(g.board, g.current_piece, shape,
                            legacy_tetromino_get_color(g.current_piece.type))]

\* "Zeile loeschen": rows y down to 1 take the row above, row 0 is emptied
shift_down(board, y) ==
    [row \in Rows |->
        IF row = 0 THEN [x \in Cols |-> 0]
        ELSE IF row <= y THEN board[row - 1]
        ELSE board[row]]

\* a loop that goes on to the row above after each removal
RECURSIVE legacy_clear_loop_moves_on(_, _, _)
legacy_clear_loop_moves_on(board, y, lines_cleared) ==
    IF y < 0 THEN [board |-> board, ret |-> lines_cleared]
    ELSE IF row_is_full(board, y)
         THEN legacy_clear_loop_moves_on(shift_down(board, y), y - 1, lines_cleared + 1)
         ELSE legacy_clear_loop_moves_on(board, y - 1, lines_cleared)

\* the while (y >= 0) loop of the legacy game_clear_lines
RECURSIVE legacy_clear_loop(_, _, _)
legacy_clear_loop(board, y, lines_cleared) ==
    IF y < 0 THEN [board |-> board, ret |-> lines_cleared]
    ELSE IF row_is_full(board, y)
         THEN legacy_clear_loop(shift_down(board, y), y, lines_cleared + 1)
         ELSE legacy_clear_loop(board, y - 1, lines_cleared)

legacy_game_clear_lines(g) ==
    LET c == legacy_clear_loop(g.board, BOARD_HEIGHT - 1, 0)
    IN  [g |-> [g EXCEPT !.board = c.board], ret |-> c.ret]

legacy_game_calculate_score(lines) ==
    CASE lines = 1 -> SCORE_SINGLE
      [] lines = 2 -> SCORE_DOUBLE
      [] lines = 3 -> SCORE_TRIPLE
      [] lines = 4 -> SCORE_TETRIS
      [] OTHER -> 0

\* a spawn that writes the piece that does not fit onto the board
legacy_game_spawn_piece_forced(g, rnd) ==
    LET g1 == [g EXCEPT !.current_piece =
                            [g.next_piece EXCEPT !.x = BOARD_WIDTH \div 2 - 2, !.y = 0],
                        !.next_piece =
                            legacy_tetromino_create(rnd, BOARD_WIDTH \div 2 - 2, 0)]
    IN  IF tetromino_check_collision(g1.current_piece, g1.board)
        THEN [g |-> [legacy_game_lock_piece(g1) EXCEPT !.state = STATE_GAME_OVER],
              ret |-> FALSE]
        ELSE [g |-> g1, ret |-> TRUE]

\* rnd is the draw of rand() % NUM_TETROMINO_TYPES for the new next piece
legacy_game_spawn_piece(g, rnd) ==
    LET g1 == [g EXCEPT !.current_piece =
                            [g.next_piece EXCEPT !.x = BOARD_WIDTH \div 2 - 2, !.y = 0],
                        !.next_piece =
                            legacy_tetromino_create(rnd, BOARD_WIDTH \div 2 - 2, 0)]
    IN  IF tetromino_check_collision(g1.current_piece, g1.board)
        THEN [g |-> [g1 EXCEPT !.state = STATE_GAME_OVER], ret |-> FALSE]
        ELSE [g |-> g1, ret |-> TRUE]

game_update_level(g) ==
    LET level == (g.lines_cleared \div LINES_PER_LEVEL) + 1
        speed == INITIAL_SPEED - (level - 1) * SPEED_DECREMENT
    IN  [g EXCEPT !.level = level,
                  !.speed_ms = IF speed < MIN_SPEED THEN MIN_SPEED ELSE speed]

\* lock, clear, score and respawn: the body shared by game_update's blocked
\* branch and input_handle_hard_drop
\* a lock that leaves the full rows on the board
lock_clear_spawn_keeps_rows(g, rnd) ==
    legacy_game_spawn_piece(legacy_game_lock_piece(g), rnd)

lock_clear_spawn(g, rnd) ==
    LET g1 == legacy_game_lock_piece(g)
        c == legacy_game_clear_lines(g1)
        g2 == IF c.ret > 0
              THEN game_update_level(
                       [c.g EXCEPT !.score = c.g.score + legacy_game_calculate_score(c.ret),
                                   !.lines_cleared = c.g.lines_cleared + c.ret])
              ELSE c.g
    IN  legacy_game_spawn_piece(g2, rnd)

\* a tick that does not look at the state
game_update_any_state(g, rnd) ==
    IF ~g.running THEN [g |-> g, ret |-> FALSE]
    ELSE LET m == game_move_piece(g, 0, 1)
         IN  IF ~m.ret
             THEN LET s == lock_clear_spawn(g, rnd)
                  IN  IF ~s.ret
                      THEN [g |-> [s.g EXCEPT !.state = STATE_GAME_OVER], ret |-> FALSE]
                      ELSE [g |-> s.g, ret |-> TRUE]
             ELSE [g |-> m.g, ret |-> TRUE]

game_update(g, rnd) ==
    IF ~g.running THEN [g |-> g, ret |-> FALSE]
    ELSE IF g.state /= STATE_PLAYING THEN [g |-> g, ret |-> TRUE]
    ELSE LET m == game_move_piece(g, 0, 1)
         IN  IF ~m.ret
             THEN LET s == lock_clear_spawn(g, rnd)
                  IN  IF ~s.ret
                      THEN [g |-> [s.g EXCEPT !.state = STATE_GAME_OVER], ret |-> FALSE]
                      ELSE [g |-> s.g, ret |-> TRUE]
             ELSE [g |-> m.g, ret |-> TRUE]

\* a pause that cannot be lifted
game_toggle_pause_one_way(g) ==
    IF g.state = STATE_PLAYING THEN [g EXCEPT !.state = STATE_PAUSED]
    ELSE g

game_toggle_pause(g) ==
    IF g.state = STATE_PLAYING THEN [g EXCEPT !.state = STATE_PAUSED]
    ELSE IF g.state = STATE_PAUSED THEN [g EXCEPT !.state = STATE_PLAYING]
    ELSE g

----------------------------------------------------------------------------
(* src/input.c: the legacy input layer *)

input_handle_pause(g) == game_toggle_pause(g)

input_handle_left(g) ==
    IF g.state = STATE_PLAYING THEN game_move_piece(g, -1, 0).g ELSE g

input_handle_right(g) ==
    IF g.state = STATE_PLAYING THEN game_move_piece(g, 1, 0).g ELSE g

\* a soft drop that takes a point instead of giving one
input_handle_down_costs(g) ==
    IF g.state = STATE_PLAYING
    THEN LET g1 == game_move_piece(g, 0, 1).g
         IN  [g1 EXCEPT !.score = g1.score - 1]
    ELSE g

input_handle_down(g) ==
    IF g.state = STATE_PLAYING
    THEN LET g1 == game_move_piece(g, 0, 1).g
         IN  [g1 EXCEPT !.score = g1.score + 1]
    ELSE g

input_handle_rotate(g, clockwise) ==
    IF g.state = STATE_PLAYING THEN game_rotate_piece(g, clockwise).g ELSE g

\* a hard-drop handler that leaves the level as it was
input_handle_hard_drop_level_kept(g, rnd) ==
    IF g.state = STATE_PLAYING
    THEN LET s == lock_clear_spawn(legacy_game_hard_drop(g).g, rnd)
             kept == [s.g EXCEPT !.level = g.level, !.speed_ms = g.speed_ms]
         IN  IF ~s.ret THEN [kept EXCEPT !.state = STATE_GAME_OVER] ELSE kept
    ELSE g

input_handle_hard_drop(g, rnd) ==
    IF g.state = STATE_PLAYING
    THEN LET s == lock_clear_spawn(legacy_game_hard_drop(g).g, rnd)
         IN  IF ~s.ret THEN [s.g EXCEPT !.state = STATE_GAME_OVER] ELSE s.g
    ELSE g

input_handle_quit(g) == [g EXCEPT !.running = FALSE]

\* the keys getch() can deliver, by the case of input_process that takes them
Keys == {"ERR", "q", "p", "KEY_LEFT", "KEY_RIGHT", "KEY_DOWN", "KEY_UP", "z", "x", "other"}

input_process(g, ch, rnd) ==
    IF g.state = STATE_GAME_OVER
    THEN IF ch = "q" THEN [g |-> [g EXCEPT !.running = FALSE], ret |-> FALSE]
         ELSE [g |-> g, ret |-> TRUE]
    ELSE CASE ch = "ERR" -> [g |-> g, ret |-> TRUE]
           [] ch = "q" -> [g |-> input_handle_quit(g), ret |-> FALSE]
           [] ch = "p" -> [g |-> input_handle_pause(g), ret |-> TRUE]
           [] ch = "KEY_LEFT" -> [g |-> input_handle_left(g), ret |-> TRUE]
           [] ch = "KEY_RIGHT" -> [g |-> input_handle_right(g), ret |-> TRUE]
           [] ch = "KEY_DOWN" -> [g |-> input_handle_down(g), ret |-> TRUE]
           [] ch = "KEY_UP" -> [g |-> input_handle_rotate(g, TRUE), ret |-> TRUE]
           [] ch = "z" -> [g |-> input_handle_rotate(g, FALSE), ret |-> TRUE]
           [] ch = "x" -> [g |-> input_handle_hard_drop(g, rnd), ret |-> TRUE]
           [] OTHER -> [g |-> g, ret |-> TRUE]

----------------------------------------------------------------------------
(* src/src/main.c: input processing and the gravity branch of the main loop *)

InputActions == {"INPUT_NONE", "INPUT_LEFT", "INPUT_RIGHT", "INPUT_DOWN",
                 "INPUT_ROTATE_CW", "INPUT_ROTATE_CCW", "INPUT_HARD_DROP",
                 "INPUT_PAUSE", "INPUT_QUIT", "INPUT_INVALID"}

\* an input handler whose hard drop does not look at the pause flag
process_input_drops_in_pause(g, action, rnd) ==
    CASE action = "INPUT_LEFT" ->
            IF g.is_paused = 0 THEN game_move_current(g, -1, 0).g ELSE g
      [] action = "INPUT_RIGHT" ->
            IF g.is_paused = 0 THEN game_move_current(g, 1, 0).g ELSE g
      [] action = "INPUT_DOWN" ->
            IF g.is_paused = 0 THEN game_move_current(g, 0, 1).g ELSE g
      [] action = "INPUT_ROTATE_CW" ->
            IF g.is_paused = 0 THEN game_rotate_current(g, 1).g ELSE g
      [] action = "INPUT_ROTATE_CCW" ->
            IF g.is_paused = 0 THEN game_rotate_current(g, 0).g ELSE g
      [] action = "INPUT_HARD_DROP" -> game_hard_drop(g, rnd).g
      [] action = "INPUT_PAUSE" ->
            [g EXCEPT !.is_paused = IF g.is_paused = 0 THEN 1 ELSE 0]
      [] action = "INPUT_QUIT" -> [g EXCEPT !.is_running = 0]
      [] OTHER -> g

process_input(g, action, rnd) ==
    CASE action = "INPUT_LEFT" ->
            IF g.is_paused = 0 THEN game_move_current(g, -1, 0).g ELSE g
      [] action = "INPUT_RIGHT" ->
            IF g.is_paused = 0 THEN game_move_current(g, 1, 0).g ELSE g
      [] action = "INPUT_DOWN" ->
            IF g.is_paused = 0 THEN game_move_current(g, 0, 1).g ELSE g
      [] action = "INPUT_ROTATE_CW" ->
            IF g.is_paused = 0 THEN game_rotate_current(g, 1).g ELSE g
      [] action = "INPUT_ROTATE_CCW" ->
            IF g.is_paused = 0 THEN game_rotate_current(g, 0).g ELSE g
      [] action = "INPUT_HARD_DROP" ->
            IF g.is_paused = 0 THEN game_hard_drop(g, rnd).g ELSE g
      [] action = "INPUT_PAUSE" ->
            [g EXCEPT !.is_paused = IF g.is_paused = 0 THEN 1 ELSE 0]
      [] action = "INPUT_QUIT" -> [g EXCEPT !.is_running = 0]
      [] OTHER -> g

\* main.c lines 186-200: the piece could not move down.  rnd_lock is the draw
\* inside game_lock_piece, rnd_next the draw of main's game_set_next_type.
main_lock_branch(g, rnd_lock, rnd_next) ==
    LET g1 == game_lock_piece(g, rnd_lock).g
    IN  IF game_check_game_over(g1) /= 0
        THEN [g1 EXCEPT !.is_running = 0]
        ELSE game_set_next_type(
                 game_spawn_piece(g1, game_get_next_type(g1)).g, rnd_next)

\* main.c lines 182-202; due is the result of time_to_drop
main_gravity(g, due, rnd_lock, rnd_next) ==
    IF g.is_paused = 0 /\ due
    THEN LET m == game_move_current(g, 0, 1)
         IN  IF m.ret = 0 THEN main_lock_branch(g, rnd_lock, rnd_next) ELSE m.g
    ELSE g

\* main.c lines 165-169: game_init, then a second spawn and a second next
main_setup(g, r1, r2, r3, r4) ==
    game_set_next_type(game_spawn_piece(game_init(g, r1, r2), r3).g, r4)

----------------------------------------------------------------------------
(* Boards of the starting states.  Each is a board that play builds without *)
(* completing a row: pieces are moved sideways at the top and dropped.      *)

\* h rows of two horizontal I pieces (columns 0-3 and 6-9) at the bottom and
\* one vertical I piece in column 4: column 5 is a well, and a vertical I
\* piece dropped into it completes the h bottom rows.
WellBoard(h) ==
    [y \in Rows |-> [x \in Cols |->
        IF \/ (y >= BOARD_HEIGHT - h /\ (x <= 3 \/ x >= 6))
           \/ (x = 4 /\ y >= BOARD_HEIGHT - 4)
        THEN COLOR_I ELSE 0]]

\* Stacks of O pieces on columns 0-1, 4-5 and 7-8 up to row 2, a J piece at
\* anchor (0,0) and an L piece at anchor (7,0), both in rotation 0: row 1 is
\* filled except columns 3-6, where an I piece spawns.
TopBoard ==
    [y \in Rows |-> [x \in Cols |->
        IF y >= 2 /\ x \in {0, 1, 4, 5, 7, 8} THEN COLOR_O
        ELSE IF <<y, x>> \in {<<0, 0>>, <<1, 0>>, <<1, 1>>, <<1, 2>>} THEN COLOR_J
        ELSE IF <<y, x>> \in {<<0, 9>>, <<1, 7>>, <<1, 8>>, <<1, 9>>} THEN COLOR_L
        ELSE 0]]

\* Stacks of O pieces on columns 0-1 and 5-6 up to row 2 and on columns 2-3
\* and 7-8 up to row 4, an S piece (rotation 0) at anchor (2,2) and a T piece
\* (rotation 2) at anchor (7,1): row 2 is filled except column 2, rows 0 and 1
\* are empty, columns 4 and 9 are empty below row 2.
CliffBoard ==
    [y \in Rows |-> [x \in Cols |->
        IF y >= 2 /\ x \in {0, 1, 5, 6} THEN COLOR_O
        ELSE IF y >= 4 /\ x \in {2, 3, 7, 8} THEN COLOR_O
        ELSE IF <<y, x>> \in {<<2, 3>>, <<2, 4>>, <<3, 2>>, <<3, 3>>} THEN COLOR_S
        ELSE IF <<y, x>> \in {<<2, 7>>, <<2, 8>>, <<2, 9>>, <<3, 8>>} THEN COLOR_T
        ELSE 0]]

\* A piece of the given kind moved from its spawn placement to (x, y, rotation)
Placed(type, x, y, rotation) == [type |-> type, x |-> x, y |-> y, rotation |-> rotation]

\* The well boards with the lines counter at which they are met: 0, or 8 or 28
\* lines cleared four at a time before the board was built (two or seven I
\* pieces dropped into the well of WellBoard(4)).
WellStarts == {<<1, 0>>, <<2, 0>>, <<3, 0>>, <<4, 0>>,
               <<1, 8>>, <<2, 8>>, <<1, 28>>, <<2, 28>>}

\* src/src: 800 x level per four rows, the level being 1 up to 11 lines,
\* 2 up to 19 lines and 3 from 20 lines on
NewScoreAt(lines) == IF lines = 0 THEN 0 ELSE IF lines = 8 THEN 1600 ELSE 10400

\* legacy: SCORE_TETRIS per four rows, the pieces falling by gravity alone
LegacyScoreAt(lines) == (lines \div 4) * SCORE_TETRIS

\* Mid-game states: a board, the current piece where the player's moves and
\* gravity have brought it, the queued kind and the lines counter.
\*  - an I piece turned upright over the well and fallen to its floor;
\*  - an I piece that has just spawned on TopBoard (it cannot fall);
\*  - on CliffBoard, an O piece moved two columns left (it rests on row 2),
\*    and a J piece moved two columns left and turned clockwise (its stem
\*    stands in the gap of row 2, on the S piece);
\*  - a flat I piece moved one column left and fallen onto the upright I
\*    piece of WellBoard(1): it lies in row 15 over columns 2-5, balanced on
\*    column 4;
\*  - on the empty board, the first piece, an I piece, turned upright, moved
\*    four columns right to the wall (it stands in column 9) and fallen five
\*    rows.
Scenarios ==
    {[board |-> WellBoard(w[1]), cur |-> Placed(TETRO_I, 3, BOARD_HEIGHT - 4, 1),
      nxt |-> n, lines |-> w[2]] : w \in WellStarts, n \in RandTypes}
    \cup {[board |-> TopBoard, cur |-> Placed(TETRO_I, 3, 0, 0),
           nxt |-> n, lines |-> 0] : n \in RandTypes}
    \cup {[board |-> CliffBoard, cur |-> c, nxt |-> n, lines |-> 0] :
           c \in {Placed(TETRO_O, 1, 0, 0), Placed(TETRO_J, 1, 0, 1)},
           n \in RandTypes}
    \cup {[board |-> WellBoard(1), cur |-> Placed(TETRO_I, 2, BOARD_HEIGHT - 6, 0),
           nxt |-> n, lines |-> 0] : n \in RandTypes}
    \cup {[board |-> clear_board, cur |-> Placed(TETRO_I, BOARD_WIDTH - 3, 5, 1),
           nxt |-> n, lines |-> 0] : n \in RandTypes}

\* a GameState whose fields hold nothing yet (main.c: "GameState game;")
blank_game ==
    [board |-> clear_board, current |-> tetromino_create(0),
     next |-> tetromino_create(0), score |-> 0, level |-> 0, lines |-> 0,
     is_running |-> 0, is_paused |-> 0]

NewGame(sc) ==
    [board |-> sc.board,
     current |-> sc.cur,
     next |-> tetromino_create(sc.nxt),
     score |-> NewScoreAt(sc.lines),
     level |-> (sc.lines \div 10) + 1,
     lines |-> sc.lines,
     is_running |-> 1,
     is_paused |-> 0]

LegacyGame(sc) ==
    game_update_level(
        [board |-> sc.board,
         current_piece |-> sc.cur,
         next_piece |-> legacy_tetromino_create(sc.nxt, BOARD_WIDTH \div 2 - 2, 0),
         score |-> LegacyScoreAt(sc.lines),
         level |-> 1,
         lines_cleared |-> sc.lines,
         speed_ms |-> INITIAL_SPEED,
         state |-> STATE_PLAYING,
         running |-> TRUE])

\* the states in which the src/src engine starts or can be mid-game
NewStarts ==
    {game_init(blank_game, n, c) : n \in RandTypes, c \in RandTypes}
    \cup {NewGame(sc) : sc \in Scenarios}

\* main.c's setup yields the same states as game_init
MainStarts ==
    {main_setup(blank_game, r1, r2, c, n) : r1 \in {0}, r2 \in {0},
                                           c \in RandTypes, n \in RandTypes}
    \cup {NewGame(sc) : sc \in Scenarios}

\* legacy main.c: game_init (game_reset), then game_spawn_piece
LegacyStarts ==
    {legacy_game_spawn_piece(legacy_game_reset(blank_game, 0, c), n).g :
        c \in RandTypes, n \in RandTypes}
    \cup {LegacyGame(sc) : sc \in Scenarios}

NoOp == [name |-> "start", a |-> 0, b |-> 0, ret |-> 0]

Call(name, a, b, ret) == [name |-> name, a |-> a, b |-> b, ret |-> ret]

----------------------------------------------------------------------------
(* Driver "api": the src/src engine's functions called in any order *)

Deltas == {<<-1, 0>>, <<1, 0>>, <<0, 1>>, <<0, -1>>}

InitApi ==
    /\ engine = "new"
    /\ driver = "api"
    /\ game \in NewStarts
    /\ op = NoOp
    /\ pc = "call"
    /\ steps = 0

ApiGuard(eng) == engine = eng /\ driver = "api" /\ steps < MaxCalls

ApiDone(r, name, a, b) ==
    /\ \E done \in {r} :
          /\ game' = done.g
          /\ op' = Call(name, a, b, done.ret)
    /\ steps' = steps + 1
    /\ UNCHANGED <<engine, driver, pc>>

ApiMove ==
    /\ ApiGuard("new")
    /\ \E d \in Deltas :
          ApiDone(game_move_current(game, d[1], d[2]), "game_move_current", d[1], d[2])

ApiRotate ==
    /\ ApiGuard("new")
    /\ \E cw \in {0, 1} :
          ApiDone(game_rotate_current(game, cw), "game_rotate_current", cw, 0)

ApiHardDrop ==
    /\ ApiGuard("new")
    /\ \E rnd \in RandTypes :
          ApiDone(game_hard_drop(game, rnd), "game_hard_drop", rnd, 0)

ApiLock ==
    /\ ApiGuard("new")
    /\ \E rnd \in RandTypes :
          ApiDone(game_lock_piece(game, rnd), "game_lock_piece", rnd, 0)

ApiSpawn ==
    /\ ApiGuard("new")
    /\ \E type \in RandTypes :
          ApiDone(game_spawn_piece(game, type), "game_spawn_piece", type, 0)

ApiClearLines ==
    /\ ApiGuard("new")
    /\ ApiDone(game_clear_lines(game), "game_clear_lines", 0, 0)

ApiReset ==
    /\ ApiGuard("new")
    /\ \E n \in RandTypes, c \in RandTypes :
          ApiDone([g |-> game_reset(game, n, c), ret |-> 0], "game_reset", n, c)

NextApi ==
    \/ ApiMove
    \/ ApiRotate
    \/ ApiHardDrop
    \/ ApiLock
    \/ ApiSpawn
    \/ ApiClearLines
    \/ ApiReset

SpecApi == InitApi /\ [][NextApi]_vars

----------------------------------------------------------------------------
(* Driver "main": the loop of src/src/main.c, one input, then gravity *)

\* the loop starts on a start state of main, or is met at the top of the
\* iteration after the one that read the pause key
MainLoopStarts ==
    MainStarts \cup {process_input(g, "INPUT_PAUSE", 0) : g \in MainStarts}

InitMain ==
    /\ engine = "new"
    /\ driver = "main"
    /\ game \in MainLoopStarts
    /\ op = NoOp
    /\ pc = "input"
    /\ steps = 0

\* "while (game.is_running)": input_get_action() delivers any action
MainInput ==
    /\ engine = "new" /\ driver = "main" /\ pc = "input"
    /\ game.is_running /= 0
    /\ steps < MaxIters
    /\ \E action \in InputActions :
          \E rnd \in IF action = "INPUT_HARD_DROP" /\ game.is_paused = 0
                     THEN RandTypes ELSE {0} :
             /\ game' = process_input(game, action, rnd)
             /\ op' = Call("process_input", action, rnd, 0)
    /\ pc' = "gravity"
    /\ steps' = steps + 1
    /\ UNCHANGED <<engine, driver>>

\* what the gravity branch does in state g when time_to_drop returns due
gravity_outcome(g, due) ==
    IF ~(g.is_paused = 0 /\ due) THEN "idle"
    ELSE IF game_move_current(g, 0, 1).ret /= 0 THEN "moved"
    ELSE "locked"

MainGravity ==
    /\ engine = "new" /\ driver = "main" /\ pc = "gravity"
    /\ \E due \in BOOLEAN :
          LET out == gravity_outcome(game, due)
          IN  \E rnd_lock \in IF out = "locked" THEN RandTypes ELSE {0} :
              \E rnd_next \in IF out = "locked" THEN RandTypes ELSE {0} :
                 /\ game' = main_gravity(game, due, rnd_lock, rnd_next)
                 /\ op' = Call("main_gravity", rnd_lock, rnd_next, out)
    /\ pc' = "input"
    /\ UNCHANGED <<engine, driver, steps>>

\* the loop condition fails: the game-over screen follows
MainExit ==
    /\ engine = "new" /\ driver = "main" /\ pc = "input"
    /\ game.is_running = 0
    /\ pc' = "exit"
    /\ op' = Call("exit", 0, 0, 0)
    /\ UNCHANGED <<engine, driver, game, steps>>

NextMain ==
    \/ MainInput
    \/ MainGravity
    \/ MainExit

SpecMain == InitMain /\ [][NextMain]_vars

----------------------------------------------------------------------------
(* Driver "api", legacy: the functions of src/game.c called in any order *)

InitLegacyApi ==
    /\ engine = "legacy"
    /\ driver = "api"
    /\ game \in LegacyStarts
    /\ op = NoOp
    /\ pc = "call"
    /\ steps = 0

LegacyMove ==
    /\ ApiGuard("legacy")
    /\ \E d \in Deltas :
          ApiDone(game_move_piece(game, d[1], d[2]), "game_move_piece", d[1], d[2])

LegacyRotate ==
    /\ ApiGuard("legacy")
    /\ \E cw \in BOOLEAN :
          ApiDone(game_rotate_piece(game, cw), "game_rotate_piece", cw, 0)

LegacyHardDrop ==
    /\ ApiGuard("legacy")
    /\ ApiDone(legacy_game_hard_drop(game), "game_hard_drop", 0, 0)

LegacyUpdate ==
    /\ ApiGuard("legacy")
    /\ \E rnd \in RandTypes :
          ApiDone(game_update(game, rnd), "game_update", rnd, 0)

LegacyTogglePause ==
    /\ ApiGuard("legacy")
    /\ ApiDone([g |-> game_toggle_pause(game), ret |-> 0], "game_toggle_pause", 0, 0)

LegacyClearLines ==
    /\ ApiGuard("legacy")
    /\ ApiDone(legacy_game_clear_lines(game), "game_clear_lines", 0, 0)

LegacyReset ==
    /\ ApiGuard("legacy")
    /\ \E c \in RandTypes, n \in RandTypes :
          ApiDone([g |-> legacy_game_reset(game, c, n), ret |-> 0], "game_reset", c, n)

NextLegacyApi ==
    \/ LegacyMove
    \/ LegacyRotate
    \/ LegacyHardDrop
    \/ LegacyUpdate
    \/ LegacyTogglePause
    \/ LegacyClearLines
    \/ LegacyReset

SpecLegacyApi == InitLegacyApi /\ [][NextLegacyApi]_vars

----------------------------------------------------------------------------
(* Driver "loop": game_loop of the legacy src/main.c *)

\* the loop starts on a legacy start state, or is met at the top of the
\* iteration after the gravity tick that ended the game, or after the one
\* that read the pause key
LoopStarts ==
    LegacyStarts
    \cup {s \in {game_update(g, n).g : g \in LegacyStarts, n \in RandTypes} :
            s.state = STATE_GAME_OVER}
    \cup {input_handle_pause(g) : g \in LegacyStarts}

InitLoop ==
    /\ engine = "legacy"
    /\ driver = "loop"
    /\ game \in LoopStarts
    /\ op = NoOp
    /\ pc = "input"
    /\ steps = 0

\* "if (!input_process(game)) break;"
LoopInput ==
    /\ engine = "legacy" /\ driver = "loop" /\ pc = "input"
    /\ game.running
    /\ steps < MaxIters
    /\ \E ch \in Keys :
          \E rnd \in IF ch = "x" /\ game.state = STATE_PLAYING
                     THEN RandTypes ELSE {0} :
             \E r \in {input_process(game, ch, rnd)} :
                 /\ game' = r.g
                 /\ op' = Call("input_process", ch, rnd, r.ret)
                 /\ pc' = IF r.ret THEN "update" ELSE "exit"
    /\ steps' = steps + 1
    /\ UNCHANGED <<engine, driver>>

\* "if (game->state == STATE_PLAYING) { usleep; game_update(game); }"
LoopUpdate ==
    /\ engine = "legacy" /\ driver = "loop" /\ pc = "update"
    /\ IF game.state = STATE_PLAYING
       THEN \E rnd \in IF game_move_piece(game, 0, 1).ret THEN {0} ELSE RandTypes :
               \E r \in {game_update(game, rnd)} :
                   /\ game' = r.g
                   /\ op' = Call("game_update", rnd, 0, r.ret)
       ELSE /\ game' = game
            /\ op' = Call("sleep", 0, 0, 0)
    /\ pc' = "input"
    /\ UNCHANGED <<engine, driver, steps>>

\* after the loop, main calls game_cleanup
LoopCleanup ==
    /\ engine = "legacy" /\ driver = "loop" /\ pc = "exit"
    /\ game' = [game EXCEPT !.running = FALSE]
    /\ op' = Call("game_cleanup", 0, 0, 0)
    /\ pc' = "done"
    /\ UNCHANGED <<engine, driver, steps>>

NextLoop ==
    \/ LoopInput
    \/ LoopUpdate
    \/ LoopCleanup

SpecLoop == InitLoop /\ [][NextLoop]_vars

----------------------------------------------------------------------------
(* Both programs, each under both of its drivers *)

Init == InitApi \/ InitMain \/ InitLegacyApi \/ InitLoop

Next == NextApi \/ NextMain \/ NextLegacyApi \/ NextLoop

Spec == Init /\ [][Next]_vars

----------------------------------------------------------------------------
(* Driver "valid": game_is_valid_position probed on mid-game boards with    *)
(* every kind, rotation and anchor whose mask box touches or leaves the     *)
(* board                                                                    *)

ProbeBoards == {clear_board, WellBoard(2), TopBoard, CliffBoard}

ProbeXs == (0 - TETRO_MATRIX_SIZE) .. BOARD_WIDTH

ProbeYs == (0 - TETRO_MATRIX_SIZE) .. BOARD_HEIGHT

InitValid ==
    /\ engine = "new"
    /\ driver = "valid"
    /\ game \in {[NewGame([board |-> b, cur |-> tetromino_create(TETRO_I),
                           nxt |-> TETRO_I, lines |-> 0])
                  EXCEPT !.current = tetromino_create(TETRO_I)] : b \in ProbeBoards}
    /\ op = NoOp
    /\ pc = "call"
    /\ steps = 0

ValidCall ==
    /\ engine = "new" /\ driver = "valid" /\ pc = "call"
    /\ \E type \in 0 .. (TETRO_COUNT - 1), rotation \in 0 .. (ROTATION_COUNT - 1),
          x \in ProbeXs, y \in ProbeYs :
          LET t == Placed(type, x, y, rotation)
          IN  op' = Call("game_is_valid_position", t, 0, game_is_valid_position(game, t))
    /\ pc' = "done"
    /\ steps' = steps + 1
    /\ UNCHANGED <<engine, driver, game>>

NextValid == ValidCall

SpecValid == InitValid /\ [][NextValid]_vars

\* the board cells <<row, column>> under the occupied mask cells of placement t
MaskCells(t) ==
    {<<t.y + r, t.x + c>> : <<r, c>> \in
        {rc \in (0 .. TETRO_MATRIX_SIZE - 1) \X (0 .. TETRO_MATRIX_SIZE - 1) :
            shape_table[t.type + 1][t.rotation + 1][rc[1] + 1][rc[2] + 1] /= 0}}

\* every occupied cell lies in columns [0,10) and rows [0,20) on an empty cell
Fits(board, t) ==
    \A cell \in MaskCells(t) :
        /\ cell[2] >= 0 /\ cell[2] < BOARD_WIDTH
        /\ cell[1] >= 0 /\ cell[1] < BOARD_HEIGHT
        /\ board[cell[1]][cell[2]] = 0

\* C1: src/src game_is_valid_position returns 1 exactly when every occupied
\* cell of the piece's mask lies in columns [0,10) and rows [0,20) and on an
\* empty board cell; a placement with an occupied cell in a row above the
\* board (row < 0) is rejected.
C1_ValidIffFits ==
    op.name = "game_is_valid_position" =>
        /\ op.ret \in {0, 1}
        /\ (op.ret = 1) <=> Fits(game.board, op.a)
        /\ (\E cell \in MaskCells(op.a) : cell[1] < 0) => op.ret = 0

\* a placement is rejected only because one of its cells is above row 0: all
\* its cells are in columns [0,10), above row 20, and those on the board are
\* on empty cells
C1_Witness_RejectedAboveTop ==
    /\ op.name = "game_is_valid_position"
    /\ op.ret = 0
    /\ \E cell \in MaskCells(op.a) : cell[1] < 0
    /\ \A cell \in MaskCells(op.a) :
          /\ cell[2] >= 0 /\ cell[2] < BOARD_WIDTH
          /\ cell[1] < BOARD_HEIGHT
          /\ cell[1] >= 0 => game.board[cell[1]][cell[2]] = 0

----------------------------------------------------------------------------
(* Claims about moves *)

\* the current piece of either engine's game structure
CurrentOf(eng, g) == IF eng = "new" THEN g.current ELSE g.current_piece

Shifted(t, dx, dy) == [t EXCEPT !.x = t.x + dx, !.y = t.y + dy]

\* the engine's own placement check
PlacementOk(eng, g, t) ==
    IF eng = "new" THEN game_is_valid_position(g, t) = 1
    ELSE ~tetromino_check_collision(t, g.board)

WithCurrent(eng, g, t) ==
    IF eng = "new" THEN [g EXCEPT !.current = t] ELSE [g EXCEPT !.current_piece = t]

\* the move's success value: 1 in src/src, true in the legacy engine
Succeeded(eng, ret) == IF eng = "new" THEN ret = 1 ELSE ret = TRUE

\* C2: in both engines a call of the move operation (game_move_current,
\* game_move_piece) with offset (dx, dy) either succeeds and changes nothing
\* but the current piece's anchor, which moves by (dx, dy), or fails and
\* leaves the whole game state unchanged; it succeeds exactly when the
\* shifted placement passes the engine's placement check.
C2_MoveAllOrNothing ==
    [][(driver = "api" /\ op'.name \in {"game_move_current", "game_move_piece"}) =>
          LET t == Shifted(CurrentOf(engine, game), op'.a, op'.b)
              ok == PlacementOk(engine, game, t)
          IN  /\ Succeeded(engine, op'.ret) <=> ok
              /\ op'.ret \in (IF engine = "new" THEN {0, 1} ELSE BOOLEAN)
              /\ game' = IF ok THEN WithCurrent(engine, game, t) ELSE game
              /\ ok => /\ CurrentOf(engine, game').x = CurrentOf(engine, game).x + op'.a
                       /\ CurrentOf(engine, game').y = CurrentOf(engine, game).y + op'.b
      ]_vars

\* the second of two moves has succeeded in the legacy engine, the piece
\* standing below its spawn row
C2_Witness_SecondMoveSucceeded ==
    /\ engine = "legacy"
    /\ op.name = "game_move_piece"
    /\ op.ret = TRUE
    /\ steps = 2
    /\ game.current_piece.y > 0

----------------------------------------------------------------------------
(* Driver "clear": game_clear_lines of either engine called on a board      *)
(* whose bottom rows are a stack of full, nearly full, sparse and empty     *)
(* rows, in the manner of src/tests/test_game.c, which writes the cells     *)
(* and the counters of the structure before the call                        *)

\* rows of the stack
MaxStack == 4

RowKinds == {"full", "gap", "dot", "none"}

\* a row of the given kind in the colour c
StackRow(kind, c) ==
    [x \in Cols |->
        CASE kind = "full" -> c
          [] kind = "gap" -> IF x = 0 THEN 0 ELSE c
          [] kind = "dot" -> IF x = 5 THEN c ELSE 0
          [] OTHER -> 0]

\* f[i] is the kind of the i-th row from the bottom, which takes colour i;
\* on a tall board column 9 is filled from the stack up to row 0 (upright I
\* pieces stood on one another)
StackBoard(f, tall) ==
    [y \in Rows |->
        IF BOARD_HEIGHT - y <= MaxStack
        THEN StackRow(f[BOARD_HEIGHT - y], ((BOARD_HEIGHT - y - 1) % TETRO_COUNT) + 1)
        ELSE [x \in Cols |-> IF tall /\ x = BOARD_WIDTH - 1 THEN COLOR_I ELSE 0]]

\* a lock completes at most four rows, the height of a piece
StackBoards ==
    {StackBoard(f, tall) : f \in {h \in [1 .. MaxStack -> RowKinds] :
        Cardinality({i \in 1 .. MaxStack : h[i] = "full"}) <= TETRO_MATRIX_SIZE},
        tall \in BOOLEAN}

\* lines counters before the call: a fresh game, one line before level 2,
\* two lines before level 3
ClearLinesBefore == {0, 9, 28}

\* src/src: the score of that many single clears (9 at level 1, 10 at level 2,
\* 9 at level 3)
NewSinglesScore(lines) == IF lines = 0 THEN 0 ELSE IF lines = 9 THEN 900 ELSE 5600

ClearStartsNew ==
    {[NewGame([board |-> b, cur |-> tetromino_create(TETRO_T), nxt |-> TETRO_O,
               lines |-> n]) EXCEPT !.score = NewSinglesScore(n)] :
        b \in StackBoards, n \in ClearLinesBefore}

ClearStartsLegacy ==
    {[LegacyGame([board |-> b,
                  cur |-> legacy_tetromino_create(TETRO_T, BOARD_WIDTH \div 2 - 2, 0),
                  nxt |-> TETRO_O, lines |-> n])
      EXCEPT !.score = n * SCORE_SINGLE] :
        b \in StackBoards, n \in ClearLinesBefore}

InitClear ==
    /\ engine \in {"new", "legacy"}
    /\ driver = "clear"
    /\ game \in (IF engine = "new" THEN ClearStartsNew ELSE ClearStartsLegacy)
    /\ op = NoOp
    /\ pc = "call"
    /\ steps = 0

\* the rows of the board that hold no empty cell
FullRows(board) == {r \in Rows : \A x \in Cols : board[r][x] /= 0}

\* op.a records the rows that were full before the call, op.b what the call
\* before this one returned
ClearDone(r) ==
    /\ game' = r.g
    /\ op' = Call("game_clear_lines", FullRows(game.board), op.ret, r.ret)
    /\ steps' = steps + 1
    /\ UNCHANGED <<engine, driver, pc>>

ClearNew ==
    /\ engine = "new" /\ driver = "clear" /\ steps < MaxCalls
    /\ \E r \in {game_clear_lines(game)} : ClearDone(r)

ClearLegacy ==
    /\ engine = "legacy" /\ driver = "clear" /\ steps < MaxCalls
    /\ \E r \in {legacy_game_clear_lines(game)} : ClearDone(r)

NextClear ==
    \/ ClearNew
    \/ ClearLegacy

SpecClear == InitClear /\ [][NextClear]_vars

----------------------------------------------------------------------------
(* Claims about clearing rows *)

\* the r-th (from 0, top down) of the rows of the board that are not full
KeptRow(board, r) ==
    CHOOSE y \in Rows \ FullRows(board) :
        Cardinality({q \in Rows \ FullRows(board) : q < y}) = r

\* the board with its full rows removed, the others packed to the bottom in
\* their order, and as many empty rows on top as were removed
Compacted(board) ==
    LET k == Cardinality(FullRows(board))
    IN  [y \in Rows |-> IF y < k THEN [x \in Cols |-> 0] ELSE board[KeptRow(board, y - k)]]

\* C3: src/src game_clear_lines removes exactly the full rows, keeps the
\* rows that are not full in their order and packed to the bottom, leaves the
\* freed rows at the top empty, and returns the number of rows removed; this
\* also holds when the full rows are not adjacent (rows 17 and 19).
C3_ClearCompacts ==
    [][(engine = "new" /\ driver = "clear" /\ op'.name = "game_clear_lines"
        /\ steps' = steps + 1) =>
          /\ op'.ret = Cardinality(FullRows(game.board))
          /\ game'.board = Compacted(game.board)
          /\ FullRows(game'.board) = {}
      ]_vars

\* rows 17 and 19 were full, rows 16 and 18 were not and held cells, and the
\* board was filled up to row 0: two rows were removed, row 18 now sits at
\* the bottom, and rows 0 and 1 are empty
C3_Witness_Rows17And19 ==
    /\ engine = "new" /\ driver = "clear"
    /\ op.name = "game_clear_lines"
    /\ op.a = {BOARD_HEIGHT - 3, BOARD_HEIGHT - 1}
    /\ op.ret = 2
    /\ game.board[2][BOARD_WIDTH - 1] /= 0
    /\ \A x \in Cols : game.board[0][x] = 0 /\ game.board[1][x] = 0
    /\ game.board[BOARD_HEIGHT - 1] = StackRow("gap", 2)
    /\ game.board[BOARD_HEIGHT - 2] = StackRow("dot", 4)

\* the counters either engine's game structure keeps
LinesOf(eng, g) == IF eng = "new" THEN g.lines ELSE g.lines_cleared

\* C4: in both engines, when game_clear_lines is called twice in a row the
\* second call returns 0 and leaves the board, the score, the lines counter
\* and the level unchanged (the first call returned the number k of full
\* rows).
C4_SecondClearIsNoOp ==
    [][(driver = "clear" /\ op.name = "game_clear_lines"
        /\ op'.name = "game_clear_lines" /\ steps' = steps + 1) =>
          /\ op'.ret = 0
          /\ op'.a = {}
          /\ game'.board = game.board
          /\ game'.score = game.score
          /\ LinesOf(engine, game') = LinesOf(engine, game)
          /\ game'.level = game.level
      ]_vars

\* the legacy engine's second call in a row, after a first that returned 3
C4_Witness_SecondCallAfterThree ==
    /\ engine = "legacy" /\ driver = "clear"
    /\ op.name = "game_clear_lines"
    /\ steps = 2
    /\ op.b = 3
    /\ op.ret = 0

\* the points of the table for k rows
ScoreTable(k) == CASE k = 1 -> 100 [] k = 2 -> 300 [] k = 3 -> 500 [] k = 4 -> 800

\* C5: in src/src a clear of k rows (k in 1..4) adds the table value for k
\* (100, 300, 500, 800) times the level held before the clear to the score,
\* adds k to the lines counter, and then sets the level to lines / 10 + 1; a
\* clear of no rows changes nothing.
C5_ClearScores ==
    [][(engine = "new" /\ driver = "clear" /\ op'.name = "game_clear_lines"
        /\ steps' = steps + 1) =>
          /\ op'.ret \in 1 .. 4 =>
                /\ game'.score = game.score + ScoreTable(op'.ret) * game.level
                /\ game'.lines = game.lines + op'.ret
                /\ game'.level = (game'.lines \div 10) + 1
          /\ op'.ret = 0 => game' = game
      ]_vars

\* four rows cleared at 28 lines and level 3: 2400 points on top of 5600,
\* 32 lines, level 4
C5_Witness_TetrisAtLevel3 ==
    /\ engine = "new" /\ driver = "clear"
    /\ op.name = "game_clear_lines"
    /\ op.ret = 4
    /\ game.score = 5600 + 2400
    /\ game.lines = 32
    /\ game.level = 4

----------------------------------------------------------------------------
(* Claims about the counters *)

\* C6: in both engines, in every reachable state the level equals the lines
\* counter divided by 10 (integer division) plus 1: 1 at 9 lines, 2 at 10
\* lines, 3 at 29 lines.
C6_LevelFromLines == game.level = (LinesOf(engine, game) \div 10) + 1

\* the legacy engine has just cleared rows 9 and 10 of the game (two rows on
\* top of 8 lines) and stands at level 2
C6_Witness_LevelTwoAtTen ==
    /\ engine = "legacy"
    /\ op.name \in {"game_update", "input_process"}
    /\ game.lines_cleared = 10
    /\ game.level = 2

\* C7: in both engines, across every transition other than a reset, the
\* score, the lines counter and the level never decrease.
C7_CountersNeverDecrease ==
    [][op'.name /= "game_reset" =>
          /\ game'.score >= game.score
          /\ LinesOf(engine, game') >= LinesOf(engine, game)
          /\ game'.level >= game.level
      ]_vars

\* src/src: a hard drop in the main loop has cleared four rows at 0 lines
\* and raised the score from 0 to 800
C7_Witness_ScoreRaised ==
    /\ engine = "new" /\ driver = "main"
    /\ op.name = "process_input" /\ op.a = "INPUT_HARD_DROP"
    /\ game.lines = 4
    /\ game.score = 800

----------------------------------------------------------------------------
(* Claims about locking *)

\* the game with the current piece's cells written to the board
WithLockedCells(g) ==
    [g EXCEPT !.board =
        lock_cells(g.board, g.current,
                   tetromino_get_shape(g.current.type, g.current.rotation),
                   tetromino_get_color(g.current.type))]

\* C8: src/src game_lock_piece clears and scores the completed rows before
\* it validates the spawn placement of the next piece: the board after the
\* call is the compacted one, the counters include the cleared rows, and the
\* game ends exactly when the next piece does not fit the compacted board.
C8_ClearBeforeSpawnCheck ==
    [][(engine = "new" /\ driver = "api" /\ op'.name = "game_lock_piece"
        /\ game.is_running = 1) =>
          LET compacted == game_clear_lines(WithLockedCells(game)).g
              fits == game_is_valid_position(compacted, game.next) = 1
          IN  /\ game'.board = compacted.board
              /\ game'.score = compacted.score
              /\ game'.lines = compacted.lines
              /\ game'.level = compacted.level
              /\ (game'.is_running = 1) <=> fits
      ]_vars

\* C9: in every state that src/src reaches through calls of its API and in
\* which is_running is 1, the current piece's placement is valid, also right
\* after a lock that cleared rows.
C9_RunningPieceIsValid ==
    (engine = "new" /\ driver = "api" /\ game.is_running = 1) =>
        game_is_valid_position(game, game.current) = 1

\* a lock happened in the step: the gravity branch could not move the piece
\* down, or the player's hard drop was processed
LockedInStep ==
    \/ op'.name = "main_gravity" /\ op'.ret = "locked"
    \/ op'.name = "process_input" /\ op'.a = "INPUT_HARD_DROP" /\ game.is_paused = 0

\* C10: in the src/src program (engine and main loop), whenever a piece locks,
\* by hard drop or by a gravity tick, and the game continues, the new current
\* piece has the kind that next held before the lock, and next holds a
\* freshly drawn kind: no previewed piece is skipped.
C10_PreviewBecomesCurrent ==
    [][(engine = "new" /\ driver = "main" /\ LockedInStep /\ game'.is_running = 1) =>
          /\ game'.current.type = game.next.type
          /\ game'.next = tetromino_create(op'.b)
      ]_vars

----------------------------------------------------------------------------
(* Claims about the hard drop and the spawn of src/src *)

\* the largest d such that the placements of t shifted down by 1..d rows
\* are all valid on the board of g
DropDistance(g, t) ==
    CHOOSE d \in 0 .. BOARD_HEIGHT :
        /\ \A i \in 1 .. d : Fits(g.board, Shifted(t, 0, i))
        /\ ~Fits(g.board, Shifted(t, 0, d + 1))

\* C11: in src/src, game_hard_drop from a valid current placement returns d,
\* the largest number such that the placements shifted down by 1..d rows are
\* all valid (0 when the piece already rests), writes the piece's four cells
\* into the board at anchor row + d with the piece's colour (rows the cells
\* complete are then cleared when the next piece fits), and makes the
\* previous next piece the current piece.
C11_HardDropLandsAndLocks ==
    [][(engine = "new" /\ driver = "api" /\ op'.name = "game_hard_drop"
        /\ Fits(game.board, game.current)) =>
          LET d == DropDistance(game, game.current)
              landed == [game EXCEPT !.current = Shifted(game.current, 0, d)]
              locked == WithLockedCells(landed).board
          IN  /\ op'.ret = d
              /\ \A cell \in MaskCells(landed.current) :
                    locked[cell[1]][cell[2]] = color_table[game.current.type + 1]
              /\ game'.board = IF FullRows(locked) = {} THEN locked
                               ELSE IF Fits(locked, game.next) THEN Compacted(locked)
                               ELSE locked
              /\ game'.current = game.next
      ]_vars

\* an I piece dropped from its spawn placement on the empty board: 18 rows
\* down, its cells in row 19, columns 3-6
C11_Witness_DropFromSpawn ==
    /\ engine = "new" /\ driver = "api"
    /\ op.name = "game_hard_drop"
    /\ op.ret = BOARD_HEIGHT - 2
    /\ steps = 1
    /\ \A x \in Cols : (game.board[BOARD_HEIGHT - 1][x] = COLOR_I) <=> (x \in 3 .. 6)

\* the piece of the given kind at the spawn anchor (3,0) in rotation 0
SpawnPlacement(type) == [type |-> type, x |-> 3, y |-> 0, rotation |-> 0]

\* C12: in src/src, game_spawn_piece(type) whose spawn placement at anchor
\* (3,0), rotation 0 is blocked returns 0, sets is_running to 0 and leaves
\* the board and the current piece unchanged; when the placement is valid it
\* returns 1 and current becomes that piece at (3,0), rotation 0, with the
\* board unchanged.
C12_SpawnAllOrNothing ==
    [][(engine = "new" /\ driver = "api" /\ op'.name = "game_spawn_piece") =>
          IF Fits(game.board, SpawnPlacement(op'.a))
          THEN /\ op'.ret = 1
               /\ game' = [game EXCEPT !.current = SpawnPlacement(op'.a)]
          ELSE /\ op'.ret = 0
               /\ game' = [game EXCEPT !.is_running = 0]
      ]_vars

\* a spawn was refused: the current piece is still of another kind than the
\* one asked for, and the game is over
C12_Witness_SpawnBlocked ==
    /\ engine = "new" /\ driver = "api"
    /\ op.name = "game_spawn_piece"
    /\ op.ret = 0
    /\ game.is_running = 0
    /\ game.current.type /= op.a
    /\ ~Fits(game.board, SpawnPlacement(op.a))

----------------------------------------------------------------------------
(* Claims about the legacy engine's rotation and placement check *)

\* the anchor offsets in the order in which they are to be tried
KickOrder == << <<0, 0>>, <<-1, 0>>, <<1, 0>>, <<0, -1>>, <<-2, 0>>, <<2, 0>>, <<0, -2>> >>

\* piece t turned (clockwise or not) and shifted by the i-th offset
Kicked(t, cw, i) ==
    [t EXCEPT !.rotation = IF cw THEN (t.rotation + 1) % 4 ELSE (t.rotation + 3) % 4,
              !.x = t.x + KickOrder[i][1],
              !.y = t.y + KickOrder[i][2]]

\* the offsets whose placement passes the collision check
PassingKicks(g, cw) ==
    {i \in 1 .. Len(KickOrder) :
        ~tetromino_check_collision(Kicked(g.current_piece, cw, i), g.board)}

Least(S) == CHOOSE i \in S : \A j \in S : i <= j

\* C13: in the legacy engine, game_rotate_piece computes rotation (r+1) mod 4
\* or (r+3) mod 4 and tries the anchor offsets (0,0), (-1,0), (1,0), (0,-1),
\* (-2,0), (2,0), (0,-2) in exactly that order; the first offset whose
\* placement passes the collision check is committed (rotation changed,
\* anchor shifted by exactly that offset, true returned); if none passes it
\* returns false and the whole game state is unchanged.
C13_RotateTakesFirstKick ==
    [][(engine = "legacy" /\ driver = "api" /\ op'.name = "game_rotate_piece") =>
          LET pass == PassingKicks(game, op'.a)
          IN  IF pass = {}
              THEN op'.ret = FALSE /\ game' = game
              ELSE /\ op'.ret = TRUE
                   /\ game' = [game EXCEPT !.current_piece =
                                   Kicked(game.current_piece, op'.a, Least(pass))]
      ]_vars

\* the flat I piece balanced on column 4 was turned clockwise: upright it
\* collides with that column, and of the kicks to the left and to the right,
\* which both pass, the one to the left was taken
C13_Witness_KickedLeft ==
    /\ engine = "legacy" /\ driver = "api"
    /\ op.name = "game_rotate_piece" /\ op.a = TRUE /\ op.ret = TRUE
    /\ steps = 1
    /\ game.board = WellBoard(1)
    /\ game.current_piece = Placed(TETRO_I, 1, BOARD_HEIGHT - 6, 1)

----------------------------------------------------------------------------
(* Claims about the rotation of src/src *)

\* the current piece of g is an upright I piece in the rightmost column and
\* the three columns to its left are empty over its four rows
UprightAtRightWall(g) ==
    /\ g.current.type = TETRO_I
    /\ g.current.rotation \in {1, 3}
    /\ \A cell \in MaskCells(g.current) : cell[2] = BOARD_WIDTH - 1
    /\ Fits(g.board, g.current)
    /\ \A cell \in MaskCells(g.current) :
          \A x \in (BOARD_WIDTH - 4) .. (BOARD_WIDTH - 2) : g.board[cell[1]][x] = 0

\* C14: in src/src, game_rotate_current applied to an I piece in its vertical
\* rotation standing flush against the right wall, with the cells to its left
\* empty, succeeds and leaves a horizontal I piece fully inside the board.
C14_RotateAtRightWallSucceeds ==
    [][(engine = "new" /\ driver = "api" /\ op'.name = "game_rotate_current"
        /\ UprightAtRightWall(game)) =>
          /\ op'.ret = 1
          /\ game'.current.type = TETRO_I
          /\ game'.current.rotation \in {0, 2}
          /\ Fits(game'.board, game'.current)
      ]_vars

----------------------------------------------------------------------------
(* Claims about the legacy placement check *)

\* the board cells <<row, column>> under the occupied mask cells of the
\* legacy placement t
LegacyMaskCells(t) ==
    {<<t.y + r, t.x + c>> : <<r, c>> \in
        {rc \in (0 .. TETROMINO_SIZE - 1) \X (0 .. TETROMINO_SIZE - 1) :
            SHAPES[t.type + 1][t.rotation + 1][rc[1] + 1][rc[2] + 1] /= 0}}

\* C15: in the legacy engine the placement check is strict about rows above
\* the board, so that in every state reachable through game_move_piece,
\* game_rotate_piece (with its upward kicks) and game_spawn_piece, no cell of
\* the current piece is at a row < 0.
C15_NoCellAboveTheBoard ==
    engine = "legacy" =>
        \A cell \in LegacyMaskCells(game.current_piece) : cell[1] >= 0

----------------------------------------------------------------------------
(* Claims about locking, scoring and hard drop in the legacy engine *)

\* the legacy board with the cells of the current piece written in its colour
LegacyLocked(g) ==
    LET cells == LegacyMaskCells(g.current_piece)
        colour == legacy_tetromino_get_color(g.current_piece.type)
    IN  [y \in Rows |-> [x \in Cols |->
            IF <<y, x>> \in cells THEN colour ELSE g.board[y][x]]]

\* the legacy game as it is when the lock of this step happens: after the
\* drop for the hard-drop key, as it stands for a blocked gravity tick
AtLock(g, name) == IF name = "input_process" THEN legacy_game_hard_drop(g).g ELSE g

\* this step of the legacy loop locks the current piece
LegacyLockInStep ==
    /\ engine = "legacy" /\ driver = "loop" /\ game.state = STATE_PLAYING
    /\ \/ op'.name = "game_update" /\ ~game_move_piece(game, 0, 1).ret
       \/ op'.name = "input_process" /\ op'.a = "x"

\* C16: in the legacy engine, when a lock made by a gravity tick (game_update)
\* or by the hard-drop key completes k rows, the score rises by the table
\* value of k (100, 300, 500, 800) times the level in force at the clear.
C16_LegacyClearScoresByLevel ==
    [][LegacyLockInStep =>
          LET landed == AtLock(game, op'.name)
              k == Cardinality(FullRows(LegacyLocked(landed)))
          IN  k \in 1 .. 4 =>
                  game'.score = landed.score + ScoreTable(k) * game.level
      ]_vars

\* the legacy placement check, cell by cell: a cell collides when its column
\* is outside the board, its row is below the floor, or it lies on a board
\* cell that is taken
LegacyCollides(board, t) ==
    \E cell \in LegacyMaskCells(t) :
        \/ cell[2] < 0 \/ cell[2] >= BOARD_WIDTH \/ cell[1] >= BOARD_HEIGHT
        \/ (cell[1] >= 0 /\ board[cell[1]][cell[2]] /= 0)

\* the number of rows the legacy current piece can fall
LegacyDropDistance(g) ==
    CHOOSE d \in 0 .. BOARD_HEIGHT + TETROMINO_SIZE :
        /\ \A i \in 1 .. d :
              ~LegacyCollides(g.board, [g.current_piece EXCEPT !.y = @ + i])
        /\ LegacyCollides(g.board, [g.current_piece EXCEPT !.y = @ + d + 1])

\* C17: the legacy game_hard_drop moves the current piece down until the next
\* step down would collide, returns the number d of steps made, adds exactly
\* 2 x d to the score and changes nothing else (board, rotation, column,
\* next piece, lines, level, state).
C17_LegacyHardDropPaysTwoPerRow ==
    [][(engine = "legacy" /\ driver = "api" /\ op'.name = "game_hard_drop") =>
          LET d == LegacyDropDistance(game)
          IN  /\ op'.ret = d
              /\ game' = [game EXCEPT !.current_piece.y = @ + d,
                                      !.score = @ + 2 * d]
      ]_vars

\* a fresh legacy game whose I piece (cells on row 1) was dropped 18 rows to
\* the floor for 36 points
C17_Witness_DroppedEighteen ==
    /\ engine = "legacy" /\ driver = "api" /\ steps = 1
    /\ op.name = "game_hard_drop" /\ op.ret = BOARD_HEIGHT - 2
    /\ game.current_piece = Placed(TETRO_I, 3, BOARD_HEIGHT - 2, 0)
    /\ game.score = 2 * (BOARD_HEIGHT - 2)
    /\ game.board = clear_board

\* the legacy spawn placement of the queued piece
LegacySpawned(g) == [g.next_piece EXCEPT !.x = 3, !.y = 0]

\* C18: a legacy game_update tick in STATE_PLAYING whose step down is blocked
\* locks the piece, clears the full rows, updates score, lines and level, and
\* then spawns the queued piece at (3,0); if that placement collides the state
\* becomes STATE_GAME_OVER and game_update returns false, and the cells of the
\* piece that could not spawn are not written to the board.
C18_BlockedTickLocksAndSpawns ==
    [][(engine = "legacy" /\ driver = "api" /\ op'.name = "game_update"
        /\ game.running /\ game.state = STATE_PLAYING
        /\ LegacyCollides(game.board, [game.current_piece EXCEPT !.y = @ + 1])) =>
          LET locked == LegacyLocked(game)
              k == Cardinality(FullRows(locked))
              cleared == IF k = 0 THEN locked ELSE Compacted(locked)
              blocked == LegacyCollides(cleared, LegacySpawned(game))
          IN  /\ game'.board = cleared
              /\ game'.lines_cleared = game.lines_cleared + k
              /\ game'.level = IF k > 0 THEN (game'.lines_cleared \div 10) + 1
                                ELSE game.level
              /\ IF k > 0 THEN game'.score > game.score
                           ELSE game'.score = game.score
              /\ game'.current_piece = LegacySpawned(game)
              /\ game'.next_piece = Placed(op'.a, 3, 0, 0)
              /\ game'.running
              /\ game'.state = IF blocked THEN STATE_GAME_OVER ELSE STATE_PLAYING
              /\ op'.ret = ~blocked
      ]_vars

\* on CliffBoard the O piece resting on row 2 was locked by the tick, and the
\* queued I piece found column 3 of row 1 taken: the game is over and the
\* board holds the O piece but no cell of the I piece
C18_Witness_SpawnBlockedAfterLock ==
    /\ engine = "legacy" /\ driver = "api" /\ steps = 1
    /\ op.name = "game_update" /\ op.ret = FALSE
    /\ game.state = STATE_GAME_OVER
    /\ game.current_piece = Placed(TETRO_I, 3, 0, 0)
    /\ {c \in Cols : game.board[1][c] /= 0} = {2, 3}
    /\ \A c \in Cols : game.board[1][c] /= COLOR_I

----------------------------------------------------------------------------
(* Claims about the legacy game states *)

\* C19: in the legacy program STATE_GAME_OVER is terminal: once it is
\* reached, no input_process call, whatever the key, and no game_update call
\* changes the board, the current piece, the next piece, the score, the level
\* or the lines counter, and the state stays STATE_GAME_OVER; only the running
\* flag can change (quit).
C19_GameOverIsTerminal ==
    [][(engine = "legacy" /\ game.state = STATE_GAME_OVER
        /\ op'.name \in {"input_process", "game_update"}) =>
          game' = [game EXCEPT !.running = game'.running]
      ]_vars

\* the loop read the left-arrow key after the game had ended (the key cannot
\* end a game itself), and the O piece locked on CliffBoard is still in place
C19_Witness_KeyAfterGameOver ==
    /\ engine = "legacy" /\ driver = "loop"
    /\ game.state = STATE_GAME_OVER
    /\ op.name = "input_process" /\ op.a = "KEY_LEFT" /\ op.ret = TRUE
    /\ game.running
    /\ game.current_piece = Placed(TETRO_I, 3, 0, 0)
    /\ {c \in Cols : game.board[1][c] /= 0} = {2, 3}

\* the state a pause toggle leads to
Toggled(state) ==
    CASE state = STATE_PLAYING -> STATE_PAUSED
      [] state = STATE_PAUSED -> STATE_PLAYING
      [] state = STATE_GAME_OVER -> STATE_GAME_OVER

\* C20: the legacy game_toggle_pause turns STATE_PLAYING into STATE_PAUSED and
\* STATE_PAUSED into STATE_PLAYING, has no effect in STATE_GAME_OVER, never
\* changes anything but the state field, and a second toggle right after the
\* first restores the original game.
C20_TogglePauseIsAnInvolution ==
    [][(engine = "legacy" /\ driver = "api" /\ op'.name = "game_toggle_pause") =>
          /\ game' = [game EXCEPT !.state = Toggled(game.state)]
          /\ game_toggle_pause(game') = game
      ]_vars

\* two toggles in a row on a game in play: paused by the first, in play again
\* after the second
C20_Witness_PausedAndResumed ==
    /\ engine = "legacy" /\ driver = "api" /\ steps = 2
    /\ op.name = "game_toggle_pause"
    /\ game.state = STATE_PLAYING
    /\ game \in LegacyStarts

----------------------------------------------------------------------------
(* Claims about pause and reset *)

\* the game of either program is paused
Paused(eng, g) == IF eng = "new" THEN g.is_paused /= 0 ELSE g.state = STATE_PAUSED

PieceActions == {"INPUT_LEFT", "INPUT_RIGHT", "INPUT_DOWN", "INPUT_ROTATE_CW",
                 "INPUT_ROTATE_CCW", "INPUT_HARD_DROP"}

PieceKeys == {"KEY_LEFT", "KEY_RIGHT", "KEY_DOWN", "KEY_UP", "z", "x"}

\* C21: in both programs, while the game is paused no gravity tick and no
\* move, soft-drop, rotate or hard-drop input changes the board, the current
\* piece, the next piece, the score, the level or the lines counter; only
\* the pause input (it resumes) and the quit input have an effect.
C21_PausedGameIsFrozen ==
    [][(driver \in {"main", "loop"} /\ Paused(engine, game)) =>
          /\ (op'.name \in {"main_gravity", "game_update", "sleep"}) => game' = game
          /\ (op'.name = "process_input" /\ op'.a \in PieceActions) => game' = game
          /\ (op'.name = "input_process" /\ op'.a \in PieceKeys) => game' = game
          /\ (op'.name = "process_input" /\ op'.a = "INPUT_PAUSE") =>
                  game' = [game EXCEPT !.is_paused = 0]
          /\ (op'.name = "process_input" /\ op'.a = "INPUT_QUIT") =>
                  game' = [game EXCEPT !.is_running = 0]
          /\ (op'.name = "input_process" /\ op'.a = "p") =>
                  game' = [game EXCEPT !.state = STATE_PLAYING]
          /\ (op'.name = "input_process" /\ op'.a = "q") =>
                  game' = [game EXCEPT !.running = FALSE]
      ]_vars

\* the src/src loop read the hard-drop action while the game was paused: the
\* I piece is still at its spawn placement over an empty board
C21_Witness_HardDropWhilePaused ==
    /\ engine = "new" /\ driver = "main"
    /\ game.is_paused = 1 /\ game.is_running = 1
    /\ op.name = "process_input" /\ op.a = "INPUT_HARD_DROP"
    /\ game.current = tetromino_create(TETRO_I)
    /\ game.board = clear_board

\* Driver "reset": game_reset called on a game as one iteration of its
\* program's loop leaves it (in play, paused or over)
ResetPriorsNew ==
    MainLoopStarts
    \cup {main_gravity(process_input(g, a, r1), TRUE, r1, r2) :
            g \in MainStarts, a \in InputActions, r1 \in RandTypes, r2 \in RandTypes}

ResetPriorsLegacy ==
    LoopStarts
    \cup {game_update(input_process(g, ch, r1).g, r2).g :
            g \in LegacyStarts, ch \in Keys, r1 \in RandTypes, r2 \in RandTypes}

InitReset ==
    /\ engine \in {"new", "legacy"}
    /\ driver = "reset"
    /\ game \in IF engine = "new" THEN ResetPriorsNew ELSE ResetPriorsLegacy
    /\ op = NoOp
    /\ pc = "call"
    /\ steps = 0

\* what the game was like before the reset
Prior(eng, g) ==
    [over |-> IF eng = "new" THEN g.is_running = 0 ELSE g.state = STATE_GAME_OVER,
     paused |-> Paused(eng, g),
     filled |-> g.board /= clear_board,
     scored |-> g.score > 0]

\* op.a records what the game was like before the call
ResetNew ==
    /\ engine = "new" /\ driver = "reset" /\ steps = 0
    /\ \E n \in RandTypes, c \in RandTypes :
          /\ game' = game_reset(game, n, c)
          /\ op' = Call("game_reset", Prior(engine, game), <<n, c>>, 0)
    /\ steps' = 1
    /\ UNCHANGED <<engine, driver, pc>>

ResetLegacy ==
    /\ engine = "legacy" /\ driver = "reset" /\ steps = 0
    /\ \E c \in RandTypes, n \in RandTypes :
          /\ game' = legacy_game_reset(game, c, n)
          /\ op' = Call("game_reset", Prior(engine, game), <<c, n>>, 0)
    /\ steps' = 1
    /\ UNCHANGED <<engine, driver, pc>>

NextReset ==
    \/ ResetNew
    \/ ResetLegacy

SpecReset == InitReset /\ [][NextReset]_vars

\* the complete fresh state of either engine
Fresh(eng, g) ==
    /\ \A y \in Rows : \A x \in Cols : g.board[y][x] = 0
    /\ g.score = 0
    /\ g.level = 1
    /\ IF eng = "new"
       THEN /\ g.lines = 0
            /\ g.is_running = 1
            /\ g.is_paused = 0
            /\ g.current.type \in 0 .. TETRO_COUNT - 1
            /\ g.current = SpawnPlacement(g.current.type)
            /\ Fits(g.board, g.current)
       ELSE /\ g.lines_cleared = 0
            /\ g.running
            /\ g.state = STATE_PLAYING
            /\ g.current_piece.type \in 0 .. NUM_TETROMINO_TYPES - 1
            /\ g.current_piece = Placed(g.current_piece.type, 3, 0, 0)
            /\ ~LegacyCollides(g.board, g.current_piece)
            /\ \A cell \in LegacyMaskCells(g.current_piece) : cell[1] >= 0

\* C22: in both engines a reset from any prior state (game over, paused,
\* non-empty board, non-zero counters) yields a complete fresh state: every
\* board cell empty, score 0, level 1, lines 0, the game running and not
\* paused, and a current piece of a valid kind at anchor (3,0), rotation 0,
\* in a valid placement.
C22_ResetYieldsFreshState ==
    (driver = "reset" /\ op.name = "game_reset") => Fresh(engine, game)

\* the src/src engine was reset while paused on a board with cells taken
C22_Witness_ResetWhilePaused ==
    /\ engine = "new" /\ driver = "reset" /\ op.name = "game_reset"
    /\ op.a.paused /\ op.a.filled /\ ~op.a.over
    /\ Fresh(engine, game)

----------------------------------------------------------------------------
(* Claims about the board cells *)

\* every cell of the board is empty or holds a colour id
CellsAreColours(board) ==
    \A y \in Rows : \A x \in Cols : board[y][x] \in 0 .. 7

\* this step is a move, a rotation, a spawn or a pause toggle
BoardKeepingStep ==
    \/ op'.name \in {"game_move_current", "game_rotate_current", "game_spawn_piece",
                     "game_move_piece", "game_rotate_piece", "game_toggle_pause"}
    \/ /\ op'.name = "process_input"
       /\ op'.a \in {"INPUT_LEFT", "INPUT_RIGHT", "INPUT_DOWN", "INPUT_ROTATE_CW",
                     "INPUT_ROTATE_CCW", "INPUT_PAUSE"}
    \/ /\ op'.name = "input_process"
       /\ op'.a \in {"KEY_LEFT", "KEY_RIGHT", "KEY_DOWN", "KEY_UP", "z", "p"}

\* C23: in both engines every board cell of every reachable state is 0
\* (empty) or a colour id in 1..7, and a move, a rotation, a spawn or a pause
\* toggle never changes a board cell: the board changes only when a piece is
\* locked and when rows are compacted.
C23_BoardCellsAndFrame ==
    [][/\ steps = 0 => CellsAreColours(game.board)
       /\ CellsAreColours(game'.board)
       /\ BoardKeepingStep => game'.board = game.board
      ]_vars

\* in the src/src engine the O piece was dropped and locked on the empty
\* board, and then a move of the next piece was refused: the board holds
\* the four O cells and nothing else
C23_Witness_MoveRefusedAfterLock ==
    /\ engine = "new" /\ driver = "api" /\ steps = 2
    /\ op.name = "game_move_current" /\ op.ret = 0
    /\ {<<y, x>> \in Rows \X Cols : game.board[y][x] /= 0}
           = {<<18, 4>>, <<18, 5>>, <<19, 4>>, <<19, 5>>}
    /\ \A x \in {4, 5} : game.board[19][x] = COLOR_O

\* the board rows on which the placement t has a cell
PieceRows(t) == {cell[1] : cell \in MaskCells(t)}

\* C24: in the src/src engine, in every play made of moves, rotations, hard
\* drops and locks, each game_lock_piece call returns a number of cleared
\* rows between 0 and 4, and the rows it clears are among the rows occupied
\* by the piece it has just locked.
C24_LockClearsOwnRows ==
    [][(engine = "new" /\ driver = "api" /\ op'.name = "game_lock_piece") =>
          /\ op'.ret \in 0 .. 4
          /\ game'.lines = game.lines + op'.ret
          /\ op'.ret > 0 =>
                LET locked == WithLockedCells(game).board
                IN  /\ FullRows(locked) \subseteq PieceRows(game.current)
                    /\ op'.ret = Cardinality(FullRows(locked))
                    /\ game'.board = Compacted(locked)
      ]_vars

\* the upright I piece locked on the floor of the well of WellBoard(4): the
\* call returned 4 and rows 16..19, the only ones with cells, are gone
C24_Witness_LockClearedFour ==
    /\ engine = "new" /\ driver = "api" /\ steps = 1
    /\ op.name = "game_lock_piece" /\ op.ret = 4
    /\ game.board = clear_board
    /\ game.lines = 4

----------------------------------------------------------------------------
(* Claims that compare the two engines *)

\* the board and the count that the src/src game_clear_lines yields
NewCleared(board) ==
    LET c == compact_rows(board, BOARD_HEIGHT - 1, BOARD_HEIGHT - 1, 0)
    IN  [board |-> clear_top_rows(c.cells, c.write_row), ret |-> c.lines_cleared]

\* the board and the count that the legacy game_clear_lines yields
LegacyCleared(board) == legacy_clear_loop(board, BOARD_HEIGHT - 1, 0)

\* C25: for every board the legacy game_clear_lines (a shift in place that
\* looks at the same row again after each removal) yields the same board and
\* the same count as the src/src game_clear_lines (read/write compaction);
\* with rows 17 and 19 full and one marked cell at row 18, column 5, both
\* return 2 and leave the marked cell at row 19, column 5.
C25_ClearLinesAgree ==
    [][(driver = "clear" /\ op'.name = "game_clear_lines") =>
          /\ NewCleared(game.board) = LegacyCleared(game.board)
          /\ game'.board = NewCleared(game.board).board
          /\ game'.board = LegacyCleared(game.board).board
          /\ op'.ret = NewCleared(game.board).ret
          /\ op'.ret = LegacyCleared(game.board).ret
      ]_vars

\* the legacy clear of a board with rows 17 and 19 full and the marked cell
\* on row 18: it returned 2 and the marked cell is the only cell left
C25_Witness_LegacyMarkedCellFell ==
    /\ engine = "legacy" /\ driver = "clear" /\ steps = 1
    /\ op.name = "game_clear_lines" /\ op.a = {17, 19} /\ op.ret = 2
    /\ {<<y, x>> \in Rows \X Cols : game.board[y][x] /= 0} = {<<19, 5>>}

----------------------------------------------------------------------------
(* Driver "speed": game_get_speed_ms called with a level *)

\* levels are probed from -MaxLevel to MaxLevel
MaxLevel == 30

\* the levels around the table, the ends of int, and levels on both sides of
\* the greatest one whose product with 100 is an int
ProbeLevels ==
    (-MaxLevel .. MaxLevel)
    \cup {INT_MIN, INT_MAX, INT_MAX \div 100 + 1, INT_MAX \div 100 + 2,
          2 * (INT_MAX \div 100) + 1, 2 * (INT_MAX \div 100) + 11}

InitSpeed ==
    /\ engine = "new"
    /\ driver = "speed"
    /\ game \in {[level |-> l] : l \in ProbeLevels}
    /\ op = NoOp
    /\ pc = "call"
    /\ steps = 0

SpeedCall ==
    /\ driver = "speed" /\ steps = 0
    /\ \E overflow \in IF game.level <= INT_MAX \div 100 + 1 THEN {"none"}
                        ELSE Overflows :
          op' = Call("game_get_speed_ms", game.level, overflow,
                     game_get_speed_ms(game.level, overflow))
    /\ steps' = 1
    /\ UNCHANGED <<engine, driver, game, pc>>

NextSpeed == SpeedCall

SpecSpeed == InitSpeed /\ [][NextSpeed]_vars

\* C26: in the src/src engine game_get_speed_ms(level) is
\* max(100, 1000 - (L - 1) x 100), L being the level with any level below 1
\* taken as 1 (that is 100 from level 10 on); the result is always within
\* 100..1000.
C26_SpeedFollowsLevel ==
    (driver = "speed" /\ op.name = "game_get_speed_ms") =>
        LET L == IF op.a < 1 THEN 1 ELSE op.a
        IN  /\ op.ret = IF L >= 10 THEN 100 ELSE 1000 - (L - 1) * 100
            /\ op.ret \in 100 .. 1000

\* C27: in the legacy engine the gravity interval speed_ms that the game
\* loop sleeps for is, in every reachable state,
\* max(100, 1000 - (level - 1) x 100) for the current level.
C27_LegacySpeedFollowsLevel ==
    (engine = "legacy" /\ driver = "loop") =>
        game.speed_ms = IF game.level >= 10 THEN 100
                        ELSE 1000 - (game.level - 1) * 100

----------------------------------------------------------------------------
(* Driver "catalog": the functions of the two piece catalogs called on a *)
(* kind and a rotation                                                    *)

\* kinds and rotations are probed up to MaxOut beyond either end of their
\* ranges
MaxOut == 2

ProbeKinds == -MaxOut .. (TETRO_COUNT - 1 + MaxOut)
ProbeRotations == -MaxOut .. (ROTATION_COUNT - 1 + MaxOut)

\* the legacy catalog is probed inside its ranges
InitCatalog ==
    /\ engine \in {"new", "legacy"}
    /\ driver = "catalog"
    /\ game \in IF engine = "new"
                THEN {Placed(k, TETRO_START_X, TETRO_START_Y, r) :
                        k \in ProbeKinds, r \in ProbeRotations}
                ELSE {Placed(k, BOARD_WIDTH \div 2 - 2, 0, r) :
                        k \in 0 .. NUM_TETROMINO_TYPES - 1, r \in 0 .. NUM_ROTATIONS - 1}
    /\ op = NoOp
    /\ pc = "call"
    /\ steps = 0

\* op.a is the kind and op.b the rotation the call was made with
CatalogDone(name, ret) ==
    /\ op' = Call(name, game.type, game.rotation, ret)
    /\ steps' = 1
    /\ UNCHANGED <<engine, driver, pc>>

CatalogGuard(eng) == engine = eng /\ driver = "catalog" /\ steps = 0

CatalogShapeNew ==
    /\ CatalogGuard("new")
    /\ CatalogDone("tetromino_get_shape", tetromino_get_shape(game.type, game.rotation))
    /\ game' = game

CatalogColorNew ==
    /\ CatalogGuard("new")
    /\ CatalogDone("tetromino_get_color", tetromino_get_color(game.type))
    /\ game' = game

\* the rotation functions assert that the rotation is valid
CatalogRotateNew ==
    /\ CatalogGuard("new")
    /\ tetromino_rotation_is_valid(game.rotation)
    /\ \/ CatalogDone("tetromino_rotate_clockwise",
                      tetromino_rotate_clockwise(game.rotation))
       \/ CatalogDone("tetromino_rotate_counter_clockwise",
                      tetromino_rotate_counter_clockwise(game.rotation))
    /\ game' = game

\* the placement check of the engine on an empty board
CatalogValidNew ==
    /\ CatalogGuard("new")
    /\ CatalogDone("game_is_valid_position", game_is_valid_position(blank_game, game))
    /\ game' = game

CatalogShapeLegacy ==
    /\ CatalogGuard("legacy")
    /\ CatalogDone("tetromino_get_shape",
                   legacy_tetromino_get_shape(game.type, game.rotation))
    /\ game' = game

CatalogColorLegacy ==
    /\ CatalogGuard("legacy")
    /\ CatalogDone("tetromino_get_color", legacy_tetromino_get_color(game.type))
    /\ game' = game

\* the legacy rotation functions work on the piece
CatalogRotateLegacy ==
    /\ CatalogGuard("legacy")
    /\ \/ /\ game' = legacy_tetromino_rotate_clockwise(game)
          /\ CatalogDone("tetromino_rotate_clockwise", 0)
       \/ /\ game' = legacy_tetromino_rotate_counter_clockwise(game)
          /\ CatalogDone("tetromino_rotate_counter_clockwise", 0)

NextCatalog ==
    \/ CatalogShapeNew
    \/ CatalogColorNew
    \/ CatalogRotateNew
    \/ CatalogValidNew
    \/ CatalogShapeLegacy
    \/ CatalogColorLegacy
    \/ CatalogRotateLegacy

SpecCatalog == InitCatalog /\ [][NextCatalog]_vars

\* the occupied cells <<row, column>> of a 4x4 mask
Occupied(mask) == {rc \in (1 .. 4) \X (1 .. 4) : mask[rc[1]][rc[2]] /= 0}

\* the mask and the colour that the catalog of the engine holds for a kind
MaskOf(eng, k, r) ==
    IF eng = "new" THEN tetromino_get_shape(k, r) ELSE legacy_tetromino_get_shape(k, r)

ColourOf(eng, k) ==
    IF eng = "new" THEN tetromino_get_color(k) ELSE legacy_tetromino_get_color(k)

\* the kind and the rotation of the call are inside their ranges
InRange(o) == o.a \in 0 .. 6 /\ o.b \in 0 .. 3

\* C28: in both catalogs each of the 7 kinds x 4 rotations has a 4x4 mask
\* with exactly 4 occupied cells; the O piece has one mask for all four
\* rotations; the masks of the I piece are a horizontal line of 4 at
\* rotations 0 and 2 and a vertical line of 4 at rotations 1 and 3; and the
\* colours of the kinds are distinct ids in 1..7.
C28_CatalogMasksAndColours ==
    (driver = "catalog" /\ InRange(op)) =>
        /\ op.name = "tetromino_get_shape" =>
              /\ Cardinality(Occupied(op.ret)) = 4
              /\ op.a = TETRO_O => op.ret = MaskOf(engine, TETRO_O, 0)
              /\ (op.a = TETRO_I /\ op.b \in {0, 2}) =>
                    \E r \in 1 .. 4 : Occupied(op.ret) = {r} \X (1 .. 4)
              /\ (op.a = TETRO_I /\ op.b \in {1, 3}) =>
                    \E c \in 1 .. 4 : Occupied(op.ret) = (1 .. 4) \X {c}
        /\ op.name = "tetromino_get_color" =>
              /\ op.ret \in 1 .. 7
              /\ \A k \in (0 .. 6) \ {op.a} : ColourOf(engine, k) /= op.ret

\* the legacy catalog was asked for the I piece at rotation 2 and gave the
\* horizontal line on the third row of the mask
C28_Witness_LegacyFlatI ==
    /\ engine = "legacy" /\ driver = "catalog"
    /\ op.name = "tetromino_get_shape" /\ op.a = TETRO_I /\ op.b = 2
    /\ Occupied(op.ret) = {3} \X (1 .. 4)

\* C29: in the catalog of src/src, tetromino_get_shape returns the mask of
\* the kind and rotation when the kind is in 0..6 and the rotation in 0..3
\* and NULL otherwise; tetromino_get_color returns -1 for a kind outside
\* 0..6; and game_is_valid_position rejects a piece whose kind or rotation
\* is outside its range.
C29_OutOfRangeIsRefused ==
    (engine = "new" /\ driver = "catalog") =>
        /\ op.name = "tetromino_get_shape" =>
              IF InRange(op)
              THEN op.ret /= NULL /\ op.ret = shape_table[op.a + 1][op.b + 1]
              ELSE op.ret = NULL
        /\ (op.name = "tetromino_get_color" /\ op.a \notin 0 .. 6) => op.ret = -1
        /\ (op.name = "game_is_valid_position" /\ ~InRange(op)) => op.ret = 0

\* the placement check was given a T piece at rotation 4 on an empty board
\* and refused it
C29_Witness_RotationFourRefused ==
    /\ engine = "new" /\ driver = "catalog"
    /\ op.name = "game_is_valid_position" /\ op.a = TETRO_T /\ op.b = 4
    /\ op.ret = 0

\* the rotation after a quarter turn in each direction
TurnedCW(r) == IF r = 3 THEN 0 ELSE r + 1

TurnedCCW(r) == IF r = 0 THEN 3 ELSE r - 1

\* the rotation that a rotate call of the catalog left: the value returned
\* in src/src, the field of the piece in the legacy catalog
RotationAfter(eng, o, t) == IF eng = "new" THEN o.ret ELSE t.rotation

\* the rotation after one more turn of the engine's own function
TurnAgain(eng, name, r) ==
    IF eng = "new"
    THEN IF name = "tetromino_rotate_clockwise"
         THEN tetromino_rotate_clockwise(r)
         ELSE tetromino_rotate_counter_clockwise(r)
    ELSE IF name = "tetromino_rotate_clockwise"
         THEN legacy_tetromino_rotate_clockwise([type |-> 0, rotation |-> r, x |-> 0, y |-> 0]).rotation
         ELSE legacy_tetromino_rotate_counter_clockwise([type |-> 0, rotation |-> r, x |-> 0, y |-> 0]).rotation

OtherTurn(name) ==
    IF name = "tetromino_rotate_clockwise"
    THEN "tetromino_rotate_counter_clockwise"
    ELSE "tetromino_rotate_clockwise"

\* C30: in both catalogs the clockwise rotation maps r to (r + 1) mod 4 and
\* the counter-clockwise rotation maps r to (r + 3) mod 4, the result is in
\* 0..3, a turn followed by the opposite turn gives r back, four turns in
\* the same direction give r back, and no other field of the piece changes.
C30_RotationsCycleThroughFour ==
    [][(driver = "catalog" /\
        op'.name \in {"tetromino_rotate_clockwise", "tetromino_rotate_counter_clockwise"}) =>
          LET r == game.rotation
              after == RotationAfter(engine, op', game')
          IN  /\ op'.name = "tetromino_rotate_clockwise" => after = TurnedCW(r)
              /\ op'.name = "tetromino_rotate_counter_clockwise" => after = TurnedCCW(r)
              /\ after \in 0 .. 3
              /\ TurnAgain(engine, OtherTurn(op'.name), after) = r
              /\ TurnAgain(engine, op'.name,
                    TurnAgain(engine, op'.name,
                      TurnAgain(engine, op'.name, after))) = r
              /\ game'.type = game.type /\ game'.x = game.x /\ game'.y = game.y
              /\ engine = "new" => game' = game]_vars

\* the legacy catalog turned a piece counter-clockwise from rotation 0 to
\* rotation 3 and left it where it was
C30_Witness_LegacyTurnedBackToThree ==
    /\ engine = "legacy" /\ driver = "catalog"
    /\ op.name = "tetromino_rotate_counter_clockwise" /\ op.b = 0
    /\ game.rotation = 3 /\ game.x = BOARD_WIDTH \div 2 - 2 /\ game.y = 0

----------------------------------------------------------------------------
(* Driver "input": the input module of src/src called in any order, with   *)
(* keys arriving at the terminal in between                                 *)

\* calls made to the input module in one run
MaxInputCalls == 4

\* what getch can deliver: the four arrow keys, the bound characters and one
\* character that is bound to nothing
InputChars == {"KEY_LEFT", "KEY_RIGHT", "KEY_DOWN", "KEY_UP", " ", "z", "Z",
               "p", "P", "q", "Q", "x"}

\* the module's flag, the terminal modes that the module sets, and the key
\* waiting in the terminal ("ERR": none); the modes are those of a terminal
\* after initscr
input_fresh ==
    [input_initialized |-> 0, cbreak |-> FALSE, echo |-> TRUE, nodelay |-> FALSE,
     keypad |-> FALSE, curs |-> 1, pending |-> "ERR"]

input_init(st) ==
    IF st.input_initialized /= 0
    THEN st
    ELSE [st EXCEPT !.cbreak = TRUE, !.echo = FALSE, !.nodelay = TRUE,
                    !.keypad = TRUE, !.curs = 0, !.input_initialized = 1]

\* a cleanup that shows the cursor and leaves the flag set
input_cleanup_keeps_flag(st) ==
    IF st.input_initialized = 0
    THEN st
    ELSE [st EXCEPT !.curs = 1]

input_cleanup(st) ==
    IF st.input_initialized = 0
    THEN st
    ELSE [st EXCEPT !.curs = 1, !.input_initialized = 0]

\* the values of the enumeration InputAction
INPUT_NONE == 0
INPUT_LEFT == 1
INPUT_RIGHT == 2
INPUT_DOWN == 3
INPUT_ROTATE_CW == 4
INPUT_ROTATE_CCW == 5
INPUT_HARD_DROP == 6
INPUT_PAUSE == 7
INPUT_QUIT == 8
INPUT_INVALID == 9

\* the action that input_get_action returns for what getch delivered
input_action_of(ch) ==
    CASE ch = "ERR" -> INPUT_NONE
      [] ch = "KEY_LEFT" -> INPUT_LEFT
      [] ch = "KEY_RIGHT" -> INPUT_RIGHT
      [] ch = "KEY_DOWN" -> INPUT_DOWN
      [] ch = "KEY_UP" -> INPUT_ROTATE_CW
      [] ch = " " -> INPUT_HARD_DROP
      [] ch \in {"z", "Z"} -> INPUT_ROTATE_CCW
      [] ch \in {"p", "P"} -> INPUT_PAUSE
      [] ch \in {"q", "Q"} -> INPUT_QUIT
      [] OTHER -> INPUT_INVALID

\* getch takes the waiting key
input_get_action(st) ==
    IF st.input_initialized = 0
    THEN [g |-> st, ret |-> INPUT_INVALID]
    ELSE [g |-> [st EXCEPT !.pending = "ERR"], ret |-> input_action_of(st.pending)]

\* getch takes the waiting key and ungetch puts it back
input_has_input(st) ==
    IF st.input_initialized = 0
    THEN [g |-> st, ret |-> 0]
    ELSE IF st.pending = "ERR"
    THEN [g |-> st, ret |-> 0]
    ELSE [g |-> st, ret |-> 1]

\* pc holds the last of input_init and input_cleanup that was called
InitInput ==
    /\ engine = "new"
    /\ driver = "input"
    /\ game = input_fresh
    /\ op = NoOp
    /\ pc = "never"
    /\ steps = 0

InputGuard == driver = "input" /\ steps < MaxInputCalls

InputInit ==
    /\ InputGuard
    /\ game' = input_init(game)
    /\ op' = Call("input_init", 0, 0, 0)
    /\ pc' = "input_init"
    /\ steps' = steps + 1
    /\ UNCHANGED <<engine, driver>>

InputCleanup ==
    /\ InputGuard
    /\ game' = input_cleanup(game)
    /\ op' = Call("input_cleanup", 0, 0, 0)
    /\ pc' = "input_cleanup"
    /\ steps' = steps + 1
    /\ UNCHANGED <<engine, driver>>

InputGetAction ==
    /\ InputGuard
    /\ \E done \in {input_get_action(game)} :
          /\ game' = done.g
          /\ op' = Call("input_get_action", 0, 0, done.ret)
    /\ steps' = steps + 1
    /\ UNCHANGED <<engine, driver, pc>>

InputHasInput ==
    /\ InputGuard
    /\ \E done \in {input_has_input(game)} :
          /\ game' = done.g
          /\ op' = Call("input_has_input", 0, 0, done.ret)
    /\ steps' = steps + 1
    /\ UNCHANGED <<engine, driver, pc>>

\* the player presses a key while none is waiting
InputKeyTyped ==
    /\ InputGuard
    /\ game.pending = "ERR"
    /\ \E ch \in InputChars : game' = [game EXCEPT !.pending = ch]
    /\ UNCHANGED <<engine, driver, op, pc, steps>>

NextInput ==
    \/ InputInit
    \/ InputCleanup
    \/ InputGetAction
    \/ InputHasInput
    \/ InputKeyTyped

SpecInput == InitInput /\ [][NextInput]_vars

\* C31: in the input module of src/src, whatever input_init and
\* input_cleanup calls were made, input_get_action returns INPUT_INVALID and
\* input_has_input returns 0 whenever the module is not initialised (never
\* initialised, or cleaned up since the last init); an input_init that
\* follows an input_init and an input_cleanup that follows an input_cleanup
\* or no init change nothing.
C31_UninitialisedInputIsInvalid ==
    [][(driver = "input" /\ steps' /= steps) =>
          /\ (pc \in {"never", "input_cleanup"} /\ op'.name = "input_get_action") =>
                op'.ret = INPUT_INVALID /\ game' = game
          /\ (pc \in {"never", "input_cleanup"} /\ op'.name = "input_has_input") =>
                op'.ret = 0 /\ game' = game
          /\ (pc = "input_init" /\ op'.name = "input_init") => game' = game
          /\ (pc \in {"never", "input_cleanup"} /\ op'.name = "input_cleanup") =>
                game' = game]_vars

\* the module was initialised and cleaned up, the player pressed q, and
\* input_get_action answered INPUT_INVALID and left the key waiting
C31_Witness_InvalidAfterCleanup ==
    /\ driver = "input" /\ pc = "input_cleanup"
    /\ op.name = "input_get_action" /\ op.ret = INPUT_INVALID
    /\ game.nodelay /\ game.pending = "q"

----------------------------------------------------------------------------
(* Claims about the rotation of the src/src engine *)

\* C32: in src/src, game_rotate_current either succeeds, setting the
\* rotation to (r + 1) mod 4 (clockwise) or (r + 3) mod 4 (counter-clockwise)
\* with the anchor, the kind, the board and the counters unchanged, exactly
\* when the rotated placement at the same anchor is valid, or returns 0 and
\* leaves the whole game state unchanged, the rotation included.
C32_RotateAllOrNothing ==
    [][(engine = "new" /\ driver = "api" /\ op'.name = "game_rotate_current") =>
          LET r == game.current.rotation
              t == [game.current EXCEPT
                      !.rotation = IF op'.a /= 0 THEN TurnedCW(r) ELSE TurnedCCW(r)]
              ok == Fits(game.board, t)
          IN  /\ op'.ret \in {0, 1}
              /\ (op'.ret = 1) <=> ok
              /\ game' = IF ok THEN [game EXCEPT !.current = t] ELSE game
              /\ game'.current.x = game.current.x
              /\ game'.current.y = game.current.y
              /\ game'.current.type = game.current.type
      ]_vars

\* a rotation of the upright I piece at the right wall was refused and the
\* piece is still upright
C32_Witness_RotateRefusedAtWall ==
    /\ engine = "new" /\ driver = "api"
    /\ op.name = "game_rotate_current" /\ op.ret = 0
    /\ UprightAtRightWall(game)

----------------------------------------------------------------------------
(* Claims about the end of the src/src main loop *)

\* C33: in the main loop of src/src, once is_running is 0 (a spawn was
\* blocked during a hard drop or a tick, or the player quit), no later step
\* of the loop, the gravity tick of the same iteration included, changes the
\* board, the score, the lines counter or the level.
C33_StoppedGameIsFrozen ==
    [][(engine = "new" /\ driver = "main" /\ game.is_running = 0) =>
          /\ game'.board = game.board
          /\ game'.score = game.score
          /\ game'.lines = game.lines
          /\ game'.level = game.level
      ]_vars

----------------------------------------------------------------------------
(* Claims about the legacy soft drop *)

\* C34: in the legacy input layer a soft-drop key in STATE_PLAYING adds its
\* one point only when the piece moved down one row; a soft drop whose move
\* down is blocked leaves the whole game state, the score included,
\* unchanged.
C34_SoftDropPaysOnlyForMove ==
    [][(engine = "legacy" /\ driver = "loop" /\ op'.name = "input_process"
        /\ op'.a = "KEY_DOWN" /\ game.state = STATE_PLAYING) =>
          IF LegacyCollides(game.board, Shifted(game.current_piece, 0, 1))
          THEN game' = game
          ELSE game' = [game EXCEPT !.current_piece = Shifted(game.current_piece, 0, 1),
                                    !.score = game.score + 1]
      ]_vars

----------------------------------------------------------------------------
(* Driver "ticks": the legacy engine with the player's moves and rotations *)
(* between gravity ticks, up to the first lock                             *)

\* the moves of the player: left, right and down
PlayerDeltas == {<<-1, 0>>, <<1, 0>>, <<0, 1>>}

\* Seventeen I pieces on the empty board: sixteen upright ones in four layers
\* on columns 3-6 (rows 4-19) and a flat one on top of them (row 3).
TowerBoard ==
    [y \in Rows |-> [x \in Cols |->
        IF y >= 3 /\ x \in 3 .. 6 THEN COLOR_I ELSE 0]]

\* the starting states of the legacy engine in which no row was cleared yet,
\* and the tower with the next I piece at its spawn anchor
TickStarts ==
    {g \in LegacyStarts : g.lines_cleared = 0}
    \cup {LegacyGame([board |-> TowerBoard, cur |-> Placed(TETRO_I, 3, 0, 0),
                      nxt |-> n, lines |-> 0]) : n \in RandTypes}

\* pc is "falling" until a tick finds the piece blocked and locks it
InitTicks ==
    /\ engine = "legacy"
    /\ driver = "ticks"
    /\ game \in TickStarts
    /\ op = Call("start", 0, 0, FALSE)
    /\ pc = "falling"
    /\ steps = 0

TicksMove ==
    /\ driver = "ticks" /\ pc = "falling"
    /\ \E d \in PlayerDeltas :
          \E r \in {game_move_piece(game, d[1], d[2])} :
             /\ game' = r.g
             /\ op' = Call("game_move_piece", d[1], d[2], r.ret)
    /\ UNCHANGED <<engine, driver, pc, steps>>

TicksRotate ==
    /\ driver = "ticks" /\ pc = "falling"
    /\ \E cw \in BOOLEAN :
          \E r \in {game_rotate_piece(game, cw)} :
             /\ game' = r.g
             /\ op' = Call("game_rotate_piece", IF cw THEN 1 ELSE 0, 0, r.ret)
    /\ UNCHANGED <<engine, driver, pc, steps>>

\* game_update: the piece falls one row, or it is blocked and is locked
TicksUpdate ==
    /\ driver = "ticks" /\ pc = "falling"
    /\ \E rnd \in RandTypes :
          \E r \in {game_update(game, rnd)} :
             /\ game' = r.g
             /\ op' = Call("game_update", rnd, 0, r.ret)
    /\ pc' = IF game_move_piece(game, 0, 1).ret THEN "falling" ELSE "locked"
    /\ UNCHANGED <<engine, driver, steps>>

NextTicks ==
    \/ TicksMove
    \/ TicksRotate
    \/ TicksUpdate

SpecTicks == InitTicks /\ [][NextTicks]_vars

\* the ticks at which the piece falls a row
TicksFall ==
    /\ driver = "ticks" /\ pc = "falling"
    /\ game_move_piece(game, 0, 1).ret
    /\ TicksUpdate

\* Gravity ticks keep occurring while the piece is falling: weak fairness of
\* TicksUpdate, written with its enabling condition pc = "falling" (a tick
\* always moves or locks the piece).  It implies the weak fairness of the
\* ticks at which the piece falls.
SpecTicksFair ==
    /\ SpecTicks
    /\ ([]<>(pc /= "falling") \/ []<><<TicksUpdate>>_vars)
    /\ WF_vars(TicksFall)

-----------------------------------------------------------------------------
(* Driver "drop": the loops of game_hard_drop (both engines) and of the
   legacy game_clear_lines, run on pieces the engine's own move function has
   lifted *)

MaxLift == 3

InitDrop ==
    /\ driver = "drop"
    /\ \/ engine = "new" /\ game \in NewStarts
       \/ engine = "legacy" /\ game \in LegacyStarts
    /\ op = NoOp
    /\ pc = "lift"
    /\ steps = 0

\* legacy game_move_piece(game, 0, -1)
DropLift ==
    /\ engine = "legacy" /\ driver = "drop" /\ pc = "lift" /\ steps < MaxLift
    /\ LET r == game_move_piece(game, 0, -1)
       IN  /\ game' = r.g
           /\ op' = Call("game_move_piece", 0, -1, IF r.ret THEN 1 ELSE 0)
    /\ steps' = steps + 1
    /\ UNCHANGED <<engine, driver, pc>>

\* src/src game_move_current(game, 0, -1)
DropLiftNew ==
    /\ engine = "new" /\ driver = "drop" /\ pc = "lift" /\ steps < MaxLift
    /\ LET r == game_move_current(game, 0, -1)
       IN  /\ game' = r.g
           /\ op' = Call("game_move_current", 0, -1, r.ret)
    /\ steps' = steps + 1
    /\ UNCHANGED <<engine, driver, pc>>

\* legacy game_hard_drop; the return value is the number of steps of its loop
DropHard ==
    /\ engine = "legacy" /\ driver = "drop" /\ pc = "lift"
    /\ LET r == legacy_game_hard_drop(game)
       IN  /\ game' = r.g
           /\ op' = Call("game_hard_drop", 0, 0, r.ret)
    /\ pc' = "dropped"
    /\ UNCHANGED <<engine, driver, steps>>

\* src/src game_hard_drop; the return value is the number of steps of its loop
DropHardNew ==
    /\ engine = "new" /\ driver = "drop" /\ pc = "lift"
    /\ \E rnd \in RandTypes :
          LET r == game_hard_drop(game, rnd)
          IN  /\ game' = r.g
              /\ op' = Call("game_hard_drop", rnd, 0, r.ret)
    /\ pc' = "dropped"
    /\ UNCHANGED <<engine, driver, steps>>

\* legacy game_lock_piece
DropLock ==
    /\ engine = "legacy" /\ driver = "drop" /\ pc = "dropped"
    /\ game' = legacy_game_lock_piece(game)
    /\ op' = Call("game_lock_piece", 0, 0, 0)
    /\ pc' = "locked"
    /\ UNCHANGED <<engine, driver, steps>>

\* legacy game_clear_lines; the return value is the number of rows removed
DropClear ==
    /\ engine = "legacy" /\ driver = "drop" /\ pc = "locked"
    /\ LET r == legacy_game_clear_lines(game)
       IN  /\ game' = r.g
           /\ op' = Call("game_clear_lines", 0, 0, r.ret)
    /\ pc' = "cleared"
    /\ UNCHANGED <<engine, driver, steps>>

NextDrop ==
    \/ DropLift
    \/ DropLiftNew
    \/ DropHard
    \/ DropHardNew
    \/ DropLock
    \/ DropClear

SpecDrop == InitDrop /\ [][NextDrop]_vars

\* C36: for every board and piece, the downward loop of game_hard_drop (in
\* both engines) ends after at most 20 successful steps, and the loop of the
\* legacy game_clear_lines ends after removing at most 20 rows.
C36_LoopsEndWithinBoardHeight ==
    [][driver = "drop" =>
          /\ (pc = "lift" /\ op'.name = "game_hard_drop")
                => op'.ret <= BOARD_HEIGHT
          /\ (pc = "locked" /\ op'.name = "game_clear_lines")
                => op'.ret <= BOARD_HEIGHT]_vars

-----------------------------------------------------------------------------
(* Claims about both programs *)

\* the game has ended: src/src stops running, the legacy game shows game over
GameIsOver ==
    IF engine = "new" THEN game.is_running = 0
    ELSE game.state = STATE_GAME_OVER

\* C37: in both programs (each engine driven by its main loop), in every state
\* reached after a complete player action or gravity tick in which the game is
\* not over, no board row has all 10 cells filled.
C37_NoFullRowWhileGameGoesOn ==
    (driver \in {"main", "loop"} /\ ~GameIsOver) => FullRows(game.board) = {}

\* legacy program: the hard-drop key sent the upright I piece into the well
\* of a board with four rows filled but for the well; the four rows are gone
\* and the game goes on
C37_Witness_LegacyDropEmptiedBoard ==
    /\ engine = "legacy" /\ driver = "loop"
    /\ op.name = "input_process" /\ op.a = "x"
    /\ game.state = STATE_PLAYING
    /\ game.lines_cleared = 4
    /\ game.board = clear_board

-----------------------------------------------------------------------------
(* Claims about the cells on the legacy board *)

\* the number of filled cells of a board
FilledCells(board) ==
    Cardinality({yx \in Rows \X Cols : board[yx[1]][yx[2]] /= 0})

\* C38: in the legacy program every lock writes exactly the four cells of the
\* locked piece onto board cells that were empty, so that each lock changes
\* the number of filled cells by 4 minus 10 per row cleared after it (and the
\* number of filled cells is 4 x pieces locked - 10 x rows cleared).
C38_LockAddsFourCells ==
    [][(engine = "legacy" /\ driver = "ticks"
        /\ pc = "falling" /\ pc' = "locked") =>
          FilledCells(game'.board) =
              FilledCells(game.board) + 4
                  - BOARD_WIDTH * (game'.lines_cleared - game.lines_cleared)
      ]_vars

-----------------------------------------------------------------------------
(* The hard-drop key against gravity *)

\* the legacy game after gravity ticks (game_update) up to and including the
\* first tick that locks the piece, rnd being the draw of that tick's spawn
RECURSIVE TicksUntilLock(_, _)
TicksUntilLock(g, rnd) ==
    IF game_move_piece(g, 0, 1).ret
    THEN TicksUntilLock(game_update(g, rnd).g, rnd)
    ELSE game_update(g, rnd).g

\* C39: in the legacy program, from any STATE_PLAYING state and with the same
\* random draw of the new next piece, the hard-drop key
\* (input_handle_hard_drop) yields the same board, current piece, next piece,
\* lines, level and state as gravity ticks applied until the first lock, and
\* the score of the hard drop is higher by exactly 2 x the drop distance.
C39_HardDropEqualsTicks ==
    [][(engine = "legacy" /\ driver = "loop" /\ game.state = STATE_PLAYING
        /\ op'.name = "input_process" /\ op'.a = "x") =>
          LET t == TicksUntilLock(game, op'.b)
              d == LegacyDropDistance(game)
          IN  game' = [t EXCEPT !.score = @ + 2 * d]
      ]_vars

\* the hard-drop key sent the first piece, a flat I piece, from its spawn
\* anchor eighteen rows down onto the floor of the empty board
C39_Witness_KeyDroppedEighteen ==
    /\ engine = "legacy" /\ driver = "loop"
    /\ op.name = "input_process" /\ op.a = "x"
    /\ game.state = STATE_PLAYING
    /\ game.score = 2 * (BOARD_HEIGHT - 2)
    /\ FilledCells(game.board) = 4
    /\ \A x \in 3 .. 6 : game.board[BOARD_HEIGHT - 1][x] /= 0

====
